---- MODULE Spec2Model ----
(***************************************************************************)
(* Model of github.com/bingoohuang/gocmd.                                  *)
(*                                                                         *)
(* Part 1: linestream.LineStream (src/linestream/stream.go), the decoder   *)
(* that turns the byte writes of a running command into lines.             *)
(*                                                                         *)
(* Go byte slices are modelled as TLA+ sequences of byte values.  Offsets  *)
(* keep Go's 0-based convention; Slice and At translate them.              *)
(*                                                                         *)
(* Part 2: gocmd.Cmd (src/cmd.go), the supervisor that starts one shell    *)
(* command, waits for it or for its context, and publishes the results.    *)
(***************************************************************************)
EXTENDS Integers, Sequences, FiniteSets, TLC

\* ---------------------------------------------------------------- bounds

\* Longest argument of one Write call in a run of several calls.
MaxLen == 2

\* Number of Write calls in one run of the decoder.
MaxWrites == 3

\* Longest argument of the single Write call of SpecOne.
MaxOneLen == 5

\* Largest size handed to SetLineBufferSize besides twice the default.
MaxBufSize == 3

\* linestream.DefaultLineBufferSize (16384 in the source), scaled down.
DefaultLineBufferSize == 1

\* Number of Write calls in one run of a decoder that is resized between them.
MaxAnyWrites == 2

\* Longest argument of one Write call of such a run.
MaxAnyLen == 2

\* Number of chunks the command writes to its output streams in one run.
MaxOutput == 2

\* Calls of AddEnv and of WithEnv on one Cmd.
MaxEnvCalls == 2

\* Tokens handed to one call of shellquote.Quote.
MaxTokens == 2

\* Characters in all tokens of one call of shellquote.Quote together.
MaxQuoteLen == 2

\* Write calls a text is cut into, and the longest piece.
MaxChunks == 3
MaxChunkLen == 2

\* Write calls taken step by step.
MaxSyncWrites == 2

\* Option functions in one call of New.
MaxOptions == 2

\* ----------------------------------------------------------------- bytes

NL == 10
CR == 13
ByteB == 98
ByteC == 99

\* Bytes of the arguments of a run of several calls, and of a single call.
Byte == {NL, CR, ByteB}
OneByte == {NL, CR, ByteB, ByteC}

RECURSIVE BytesUpTo(_, _)
BytesUpTo(alphabet, k) ==
  IF k = 0 THEN {<<>>}
  ELSE LET shorter == BytesUpTo(alphabet, k - 1)
       IN shorter \cup {Append(s, b) : s \in shorter, b \in alphabet}

\* The pieces of a text without carriage returns.
ChunkInputs == BytesUpTo({NL, ByteB}, MaxChunkLen)

\* Arguments of Write: every byte string of length 0..MaxLen.
Inputs == BytesUpTo(Byte, MaxLen)

\* Arguments of the single Write of SpecOne.
OneInputs == BytesUpTo(OneByte, MaxOneLen)

\* Arguments of Write in a run where the decoder is resized between writes.
AnyInputs == BytesUpTo(Byte, MaxAnyLen)

\* Arguments of SetLineBufferSize.
BufSizes == (0..MaxBufSize) \cup {2 * DefaultLineBufferSize}

\* --------------------------------------------------------- Go primitives

\* s[i:j]
Slice(s, i, j) == SubSeq(s, i + 1, j)

\* s[i]
At(s, i) == s[i + 1]

\* bytes.IndexByte(s, c)
RECURSIVE IndexFrom(_, _, _)
IndexFrom(s, c, i) ==
  IF i > Len(s) THEN -1
  ELSE IF s[i] = c THEN i - 1
  ELSE IndexFrom(s, c, i + 1)

IndexByte(s, c) == IndexFrom(s, c, 1)

\* make([]byte, size)
MakeBytes(size) == [i \in 1..size |-> 0]

\* copy(dst[at:], src), for len(src) <= len(dst) - at
CopyAt(dst, at, src) ==
  [i \in 1..Len(dst) |->
     IF i > at /\ i <= at + Len(src) THEN src[i - at] ELSE dst[i]]

\* ------------------------------------------------------------ LineStream

VARIABLES
  buf,          \* rw.buf
  bufSize,      \* rw.bufSize
  lastChar,     \* rw.lastChar
  p,            \* argument of the last Write
  lines,        \* lines handed to rw.lineProcessor by the last Write, in order
  n,            \* first result of the last Write
  err,          \* second result of the last Write
  writes,       \* number of Write calls so far
  requested,    \* history: the capacity the caller asked for
  pending,      \* history: bytes accepted since the last consumed newline
  prevPending,  \* history: pending as it was before the last Write
  prevOverflow, \* history: the Write before the last one returned an overflow
  run,          \* history: consecutive accepted newline-free writes before the last Write
  retries,      \* history: times in a row the rejected tail was written again as-is
  panicked      \* the last Write ended in a run-time panic

lsVars == <<buf, bufSize, lastChar, p, lines, n, err, writes,
            requested, pending, prevPending, prevOverflow, run, retries,
            panicked>>

VARIABLES
  Timeout,      \* c.Timeout, in seconds
  Executed,     \* c.Executed
  exitCode,     \* c.exitCode
  StdoutBuf,    \* c.StdoutBuf
  StderrBuf,    \* c.StderrBuf
  CombinedBuf,  \* c.CombinedBuf
  pc,           \* where the caller of Run is: "new", "select" or "returned"
  hasDeadline,  \* Run: the caller's context carries a deadline
  timeoutCtx,   \* Run: the context was wrapped with c.Timeout
  ctxErr,       \* ctx.Err() of the context Run selects on
  cause,        \* what ended that context: "none", "timer" or "caller"
  pid,          \* cmd.Process.Pid, 0 while there is no process
  proc,         \* the process: "none", "running" or "exited"
  exitStatus,   \* the status the process exited with
  waiter,       \* the task of Run's go statement: "none", "waiting", "sending", "finished"
  waitErr,      \* the value cmd.Wait returned to that task
  signal,       \* the syscall.Kill of Run: "none", "sent" or "failed"
  sigTarget,    \* first argument of that syscall.Kill
  ret,          \* the error Run returned
  access        \* the last accessor call and how it ended

cmdVars == <<Timeout, Executed, exitCode, StdoutBuf, StderrBuf, CombinedBuf,
             pc, hasDeadline, timeoutCtx, ctxErr, cause, pid, proc,
             exitStatus, waiter, waitErr, signal, sigTarget, ret, access>>

VARIABLES
  StdoutWriter, \* c.StdoutWriter: the sinks of its io.MultiWriter, in order
  stderrWriter, \* c.stderrWriter: the sinks of its io.MultiWriter, in order
  ext,          \* bytes received by each sink that is not a buffer of the Cmd
  attached,     \* history: sinks that options were asked to attach, per stream
  copier,       \* the two tasks of os/exec that copy stdout and stderr
  combinedTail, \* bytes of CombinedBuf's array beyond its length
  sent,         \* history: the bytes the command wrote, in order of delivery
  Env,          \* c.Env
  envCall,      \* history: the last option or call that changed c.Env
  procEnv,      \* environment the started process received
  oneShot       \* result of the one-shot helper Run(cmd, options...)

ioVars == <<StdoutWriter, stderrWriter, ext, attached, copier, combinedTail,
            sent, Env, envCall, procEnv, oneShot>>

VARIABLES
  quote         \* the last call of shellquote.Quote or QuoteMust

sqVars == <<quote>>

VARIABLES
  source,       \* history: the bytes of all Write calls, one after the other
  emitted,      \* history: the lines handed to rw.lineProcessor by all calls
  overflowed    \* history: some Write call returned an overflow

chVars == <<source, emitted, overflowed>>

VARIABLES
  call          \* where a Write call taken step by step is, and its locals

syVars == <<call>>

VARIABLES
  options       \* history: the option functions New was given, in their order

opVars == <<options>>

vars == <<lsVars, cmdVars, ioVars, sqVars, chVars, syVars, opVars>>

\* error values returned by Write
NoErr == [overflow |-> FALSE, Line |-> <<>>, BufferSize |-> 0, BufferFree |-> 0]

ErrLineBufferOverflow(line, size, free) ==
  [overflow |-> TRUE, Line |-> line, BufferSize |-> size, BufferFree |-> free]

\* EndOfLine with the byte before the newline dropped without looking at it.
EndOfLineAlwaysStrips(q, firstCharPos, newlineOffset) ==
  IF newlineOffset > 0
  THEN firstCharPos + newlineOffset - 1
  ELSE firstCharPos + newlineOffset

\* End of line offset (stream.go:88-91): the newline's offset in q, less one
\* when the CR test succeeds.
EndOfLine(q, firstCharPos, newlineOffset) ==
  IF newlineOffset > 0 /\ At(q, newlineOffset - 1) = CR
  THEN firstCharPos + newlineOffset - 1
  ELSE firstCharPos + newlineOffset

\* BufferedHead with the line buffer forgotten.
BufferedHeadDropped(b, rwLastChar) == <<>>

\* The buffered head of a line (stream.go:94-98).
BufferedHead(b, rwLastChar) ==
  IF rwLastChar > 0 THEN Slice(b, 0, rwLastChar) ELSE <<>>

\* Emit with blank lines skipped.
EmitNonBlank(out, line) == IF line = <<>> THEN out ELSE Append(out, line)

\* rw.lineProcessor(line) (stream.go:100): the processor is called once per
\* line; out is what it has received in this call.
Emit(out, line) == Append(out, line)

\* The LINES loop of Write (stream.go:75-104): from offset firstCharPos of q,
\* with rwLastChar bytes in the line buffer b and out already sent.
RECURSIVE LinesLoop(_, _, _, _, _)
LinesLoop(q, firstCharPos, rwLastChar, b, out) ==
  LET newlineOffset == IndexByte(Slice(q, firstCharPos, Len(q)), NL) IN
  IF newlineOffset < 0
  THEN [firstCharPos |-> firstCharPos, lastChar |-> rwLastChar, lines |-> out]
  ELSE
    LET line == BufferedHead(b, rwLastChar)
                  \o Slice(q, firstCharPos, EndOfLine(q, firstCharPos, newlineOffset))
    IN LinesLoop(q, firstCharPos + newlineOffset + 1, 0, b, Emit(out, line))

\* Overflows with the buffer never filled to its last byte.
OverflowsWhenFull(remain, bufFree) == remain >= bufFree

\* The overflow test of Write (stream.go:110).
Overflows(remain, bufFree) == remain > bufFree

\* OverflowError with the whole buffer reported as free.
OverflowErrorWholeFree(b, rwLastChar, tail, size, bufFree) ==
  ErrLineBufferOverflow(BufferedHead(b, rwLastChar) \o tail, size, size)

\* The error built on overflow (stream.go:111-121).
OverflowError(b, rwLastChar, tail, size, bufFree) ==
  ErrLineBufferOverflow(BufferedHead(b, rwLastChar) \o tail, size, bufFree)

\* Rejected with the line buffer reset.
RejectedCleared(b, rwLastChar, tail) == [buf |-> b, lastChar |-> 0]

\* Rejected with the buffer filled with as much of the tail as fits.
RejectedPartialFill(b, rwLastChar, tail) ==
  [buf |-> CopyAt(b, rwLastChar, SubSeq(tail, 1, Len(b) - rwLastChar)),
   lastChar |-> Len(b)]

\* The line buffer after an overflow (stream.go:110-125): nothing is assigned.
Rejected(b, rwLastChar, tail) == [buf |-> b, lastChar |-> rwLastChar]

\* The tail stored at the start of the line buffer, over the carried bytes.
BufferedFromStart(b, rwLastChar, tail) ==
  [buf |-> CopyAt(b, 0, tail), lastChar |-> Len(tail)]

\* Buffered with the last byte of the tail left out of the count.
BufferedOneShort(b, rwLastChar, tail) ==
  [buf |-> CopyAt(b, rwLastChar, tail),
   lastChar |-> rwLastChar + Len(tail) - 1]

\* The line buffer after the tail was copied in (stream.go:127-128).
Buffered(b, rwLastChar, tail) ==
  [buf |-> CopyAt(b, rwLastChar, tail), lastChar |-> rwLastChar + Len(tail)]

\* The part of Write after the loop (stream.go:106-131).
WriteTail(q, b, size, loop) ==
  LET first  == loop.firstCharPos
      lc     == loop.lastChar
      remain == Len(q) - first
      free   == Len(b) - lc
      tail   == Slice(q, first, Len(q))
  IN
  IF first < Len(q)
  THEN IF Overflows(remain, free)
       THEN [lines |-> loop.lines, n |-> first,
             err |-> OverflowError(b, lc, tail, size, free),
             rw |-> Rejected(b, lc, tail)]
       ELSE [lines |-> loop.lines, n |-> Len(q), err |-> NoErr,
             rw |-> Buffered(b, lc, tail)]
  ELSE [lines |-> loop.lines, n |-> Len(q), err |-> NoErr,
        rw |-> [buf |-> b, lastChar |-> lc]]

\* LineStream.Write (stream.go:71-132) as a function of the decoder state and
\* the argument: the lines sent, the results and the new decoder state.
WriteResult(q, b, size, rwLastChar) ==
  WriteTail(q, b, size, LinesLoop(q, 0, rwLastChar, b, <<>>))

\* ----------------------------------------------- what the caller observes

\* Number of newline bytes in s.
NLCount(s) == Cardinality({i \in 1..Len(s) : s[i] = NL})

HasNL(s) == \E i \in 1..Len(s) : s[i] = NL

\* 1-based position of the k-th newline of s.
NLPos(s, k) ==
  CHOOSE i \in 1..Len(s) :
    s[i] = NL /\ Cardinality({j \in 1..i : s[j] = NL}) = k

\* The k-th newline-terminated segment of s, without its newline.
Segment(s, k) ==
  SubSeq(s, IF k = 1 THEN 1 ELSE NLPos(s, k - 1) + 1, NLPos(s, k) - 1)

\* The bytes of s after its last newline (all of s when it has none).
Unterminated(s) ==
  IF HasNL(s) THEN SubSeq(s, NLPos(s, NLCount(s)) + 1, Len(s)) ELSE s

\* s without the carriage return that ends it, if one does.
StripCR(s) ==
  IF Len(s) > 0 /\ s[Len(s)] = CR THEN SubSeq(s, 1, Len(s) - 1) ELSE s

\* Bytes accepted since the last consumed newline, after a Write of q that
\* returned count: the caller's own account of what is still unterminated.
RECURSIVE LastNL(_, _)
LastNL(s, i) == IF i = 0 THEN 0 ELSE IF s[i] = NL THEN i ELSE LastNL(s, i - 1)

PendingAfter(old, q, count) ==
  LET m == LastNL(q, count)
  IN IF m > 0 THEN SubSeq(q, m + 1, count) ELSE old \o SubSeq(q, 1, count)

\* ------------------------------------------------------- gocmd.Cmd values

\* The Timeout that New sets (cmd.go:66: 1 * time.Minute), in seconds.
DefaultTimeout == 60

\* The default the comment of New states (cmd.go:50: "Default timeout is
\* set to 30 minutes"), in seconds.
ThirtyMinutes == 1800

\* Error values returned by Run; arg is the duration or the process id that
\* the message is formatted with, 0 when it has none.
NotReturned == [kind |-> "not returned", arg |-> 0]
NilError == [kind |-> "nil", arg |-> 0]

\* The errors Run builds on its cancellation branch (cmd.go:261, 265, 267)
\* and the error of a failed cmd.Start (cmd.go:243).
StartError == [kind |-> "start", arg |-> 0]
KillError(processId) == [kind |-> "timeout, kill", arg |-> processId]
TimeoutAfter(d) == [kind |-> "timeout after", arg |-> d]
CtxError(e) == [kind |-> e, arg |-> 0]

\* Values of ctx.Err() once the context is done.
Canceled == "context canceled"
DeadlineExceeded == "context deadline exceeded"

\* Values cmd.Wait returns: nil, an *exec.ExitError carrying the wait status
\* of a non-zero exit, or the error of a failed output copy.
WaitNil == [kind |-> "nil", status |-> 0]
ExitError(status) == [kind |-> "ExitError", status |-> status]
CopyError == [kind |-> "copy", status |-> 0]

\* Arguments of WithTimeout, in seconds: negative, zero and positive.
Timeouts == {-1, 0, 1}

\* Exit statuses of the command: a zero exit and the `exit 120` of
\* TestCommand_ExitCode.
ExitStatuses == {0, 120}

\* Process ids the operating system may give the command.
Pids == {100, 101}

\* The result accessors of Cmd (cmd.go:186-208).
Accessors == {"Stdout", "Stderr", "Combined", "ExitCode"}

\* No accessor has been called yet.
NoAccess ==
  [name |-> "", at |-> "", executed |-> FALSE, panic |-> FALSE, property |-> ""]

\* The two output streams of the command.
Streams == {"stdout", "stderr"}

\* Sinks outside the Cmd that an option can put into a fan-out: the standard
\* streams of the calling process (WithStdStreams) and the writers handed to
\* WithStdout ("w") and WithStderr ("v").
ExtSinks == {"os.Stdout", "os.Stderr", "w", "v"}

\* The writers handed to one call of WithStdout, and to one of WithStderr.
StdoutWriters == {<<"w">>}
StderrWriters == {<<"v">>}

\* The fan-outs New builds (cmd.go:70-71).
NewStdoutWriter == <<"StdoutBuf", "CombinedBuf">>
NewStderrWriter == <<"StderrBuf", "CombinedBuf">>

\* The bytes the command writes: stdout carries ByteB then NL, stderr
\* carries ByteC then CR, so that a byte names its stream and its rank.
StreamBytes(stream) ==
  IF stream = "stdout" THEN <<ByteB, NL>> ELSE <<ByteC, CR>>

\* A copying task of os/exec between two calls of Write.
Idle == [at |-> "idle", m |-> 0, chunk |-> <<>>]

\* os.Environ() of the calling process.
Environ == <<[key |-> "HOME", value |-> <<"/root">>]>>

\* A value of c.Env: a slice with its entries, or the nil slice.
EnvOf(entries) == [nil |-> FALSE, entries |-> entries]

\* c.Env after WithoutEnv: a nil slice.
NilEnv == [nil |-> TRUE, entries |-> <<>>]

\* Keys and values handed to AddEnv. A value is a sequence of parts: a
\* literal text or a reference ${text} to a variable.
EnvKeys == {"key", "SOME_KEY"}
EnvValues ==
  { <<[var |-> FALSE, text |-> "value"]>>,
    <<[var |-> TRUE, text |-> "HOME"]>>,
    <<[var |-> FALSE, text |-> "Hello "], [var |-> TRUE, text |-> "UNSET"]>> }

\* The maps handed to WithEnv.
EnvMaps ==
  { [k \in keys |-> <<[var |-> FALSE, text |-> "value"]>>] :
      keys \in (SUBSET EnvKeys) \ {{}} }

\* No option and no call has changed c.Env since New.
NoEnvCall ==
  [op |-> "", key |-> "", value |-> <<>>, before |-> EnvOf(<<>>), n |-> 0]

\* The one-shot helper has not returned.
NoResult ==
  [called |-> FALSE, out |-> <<>>,
   err |-> [kind |-> "not returned", arg |-> 0], text |-> <<>>]

\* Tokens waiting to be handed to Quote or QuoteMust.
Pending(tokens) ==
  [fn |-> "", tokens |-> tokens, out |-> <<>>, err |-> "", panic |-> FALSE]

\* Neither Quote nor QuoteMust is going to be called.
NoQuote == Pending(<<>>)

\* gocmd.New without options (cmd.go:63-78), and an exec.Cmd not yet started.
NewCmd ==
  /\ Timeout = DefaultTimeout
  /\ Executed = FALSE
  /\ exitCode = 0
  /\ StdoutBuf = <<>>
  /\ StderrBuf = <<>>
  /\ CombinedBuf = <<>>
  /\ pc = "new"
  /\ hasDeadline = FALSE
  /\ timeoutCtx = FALSE
  /\ ctxErr = "nil"
  /\ cause = "none"
  /\ pid = 0
  /\ proc = "none"
  /\ exitStatus = 0
  /\ waiter = "none"
  /\ waitErr = WaitNil
  /\ signal = "none"
  /\ sigTarget = 0
  /\ ret = NotReturned
  /\ access = NoAccess
  /\ StdoutWriter = NewStdoutWriter
  /\ stderrWriter = NewStderrWriter
  /\ ext = [s \in ExtSinks |-> <<>>]
  /\ attached = [t \in Streams |-> {}]
  /\ copier = [t \in Streams |-> Idle]
  /\ combinedTail = <<>>
  /\ sent = <<>>
  /\ Env = EnvOf(Environ)
  /\ envCall = NoEnvCall
  /\ procEnv = <<>>
  /\ oneShot = NoResult

\* ---------------------------------------------------------------- actions

\* linestream.New (stream.go:58-67)
NewLineStream ==
  /\ buf = MakeBytes(DefaultLineBufferSize)
  /\ bufSize = DefaultLineBufferSize
  /\ lastChar = 0
  /\ p = <<>>
  /\ lines = <<>>
  /\ n = 0
  /\ err = NoErr
  /\ writes = 0
  /\ requested = DefaultLineBufferSize
  /\ pending = <<>>
  /\ prevPending = <<>>
  /\ prevOverflow = FALSE
  /\ run = 0
  /\ retries = 0
  /\ panicked = FALSE

\* No Write call begun: at is "idle" before the first call, "loop" at the
\* head of the LINES loop, "processor" inside rw.lineProcessor and
\* "returned" after Write; firstCharPos and newlineOffset are the locals of
\* Write, returns counts the returns of rw.lineProcessor in this call, and
\* before is the decoder as the call found it.
NoCall ==
  [at |-> "idle", firstCharPos |-> 0, newlineOffset |-> 0, returns |-> 0,
   before |-> [buf |-> <<>>, lastChar |-> 0]]

\* New was called without option functions.
NoOptions == [given |-> FALSE, list |-> <<>>]

\* Nothing written yet.
NoChunks == source = <<>> /\ emitted = <<>> /\ overflowed = FALSE

\* A decoder and a command, both as their constructors leave them, and no
\* call of the shellquote package yet.
Init ==
  /\ NewLineStream /\ NewCmd /\ quote = NoQuote /\ NoChunks /\ call = NoCall
  /\ options = NoOptions

\* Resize with the line buffer not reallocated.
ResizeKeepsBuffer(size) == [bufSize |-> size, buf |-> buf]

\* The assignments of SetLineBufferSize (stream.go:139).
Resize(size) == [bufSize |-> size, buf |-> MakeBytes(size)]

\* LineStream.SetLineBufferSize (stream.go:139), called as its comment
\* requires: immediately after New.
SetLineBufferSize ==
  /\ writes = 0
  /\ \E size \in BufSizes :
       /\ bufSize' = Resize(size).bufSize
       /\ buf' = Resize(size).buf
       /\ requested' = size
  /\ UNCHANGED <<lastChar, p, lines, n, err, writes,
                 pending, prevPending, prevOverflow, run, retries, panicked>>
  /\ UNCHANGED <<cmdVars, ioVars, sqVars, opVars, chVars, syVars>>

\* The effect of one call of LineStream.Write (stream.go:71-132) with
\* argument q on the decoder, its results and the caller's account of them.
WriteStep(q) ==
  \E r \in {WriteResult(q, buf, bufSize, lastChar)} :
    /\ p' = q
    /\ lines' = r.lines
    /\ n' = r.n
    /\ err' = r.err
    /\ buf' = r.rw.buf
    /\ lastChar' = r.rw.lastChar
    /\ writes' = writes + 1
    /\ pending' = PendingAfter(pending, q, r.n)
    /\ prevPending' = pending
    /\ prevOverflow' = err.overflow
    /\ run' = IF writes > 0 /\ ~HasNL(p) /\ ~err.overflow THEN run + 1 ELSE 0
    /\ retries' = IF err.overflow /\ q = Slice(p, n, Len(p)) THEN retries + 1 ELSE 0
    /\ UNCHANGED <<bufSize, requested, panicked>>
    /\ UNCHANGED <<cmdVars, ioVars, sqVars, opVars, syVars>>

\* One call of LineStream.Write (stream.go:71-132) with argument q.
WriteCall(q) == WriteStep(q) /\ UNCHANGED chVars

\* LineStream.Write, one of the calls of a run.
Write ==
  /\ writes < MaxWrites
  /\ \E q \in Inputs : WriteCall(q)

\* LineStream.Write, the only call of a run.
WriteOnce ==
  /\ writes = 0
  /\ \E q \in OneInputs : WriteCall(q)

Next == SetLineBufferSize \/ Write

\* A decoder that is created, optionally resized and then written to.
Spec == Init /\ [][Next]_vars

\* LineStream.Write with the next piece of a text, the caller keeping the
\* whole text and every line delivered so far.
WriteChunk ==
  /\ writes < MaxChunks
  /\ \E q \in ChunkInputs :
       /\ WriteStep(q)
       /\ source' = source \o q
       /\ emitted' = emitted \o lines'
       /\ overflowed' = (overflowed \/ err'.overflow)

NextChunks == SetLineBufferSize \/ WriteChunk

\* A decoder that is created, optionally resized and then given a text
\* without carriage returns piece by piece.
SpecChunks == Init /\ [][NextChunks]_vars

\* rw.lineProcessor(line) started in its own task, Write going on at once.
DeliverAsync(c, newlineOffset) ==
  [c EXCEPT !.firstCharPos = @ + newlineOffset + 1]

\* rw.lineProcessor(line) (stream.go:100): control is in the processor
\* until it returns.
Deliver(c, newlineOffset) ==
  [c EXCEPT !.at = "processor", !.newlineOffset = newlineOffset]

\* The return of rw.lineProcessor and the end of the iteration
\* (stream.go:100-103).
Delivered(c) ==
  [c EXCEPT !.at = "loop", !.firstCharPos = @ + c.newlineOffset + 1,
            !.returns = @ + 1]

\* Write is entered (stream.go:71-73).
WriteBegins ==
  /\ call.at \in {"idle", "returned"}
  /\ writes < MaxSyncWrites
  /\ \E q \in Inputs :
       /\ p' = q
       /\ lines' = <<>>
       /\ writes' = writes + 1
       /\ call' = [NoCall EXCEPT !.at = "loop",
                                 !.before = [buf |-> buf, lastChar |-> lastChar]]
  /\ UNCHANGED <<buf, bufSize, lastChar, n, err, requested, pending,
                 prevPending, prevOverflow, run, retries, panicked>>
  /\ UNCHANGED <<cmdVars, ioVars, sqVars, opVars, chVars>>

\* One iteration of the LINES loop up to the call of the processor
\* (stream.go:81-100).
ProcessorCalled ==
  /\ call.at = "loop"
  /\ \E newlineOffset \in {IndexByte(Slice(p, call.firstCharPos, Len(p)), NL)} :
       /\ newlineOffset >= 0
       /\ lines' = Emit(lines,
                        BufferedHead(buf, lastChar)
                          \o Slice(p, call.firstCharPos,
                                   EndOfLine(p, call.firstCharPos, newlineOffset)))
       /\ lastChar' = 0
       /\ call' = Deliver(call, newlineOffset)
  /\ UNCHANGED <<buf, bufSize, p, n, err, writes, requested, pending,
                 prevPending, prevOverflow, run, retries, panicked>>
  /\ UNCHANGED <<cmdVars, ioVars, sqVars, opVars, chVars>>

\* The processor returns; a processor that blocks never takes this step.
ProcessorReturns ==
  /\ call.at = "processor"
  /\ call' = Delivered(call)
  /\ UNCHANGED <<lsVars, cmdVars, ioVars, sqVars, opVars, chVars>>

\* No newline is left: the tail is buffered or rejected and Write returns
\* (stream.go:82-84, 106-131).
WriteReturns ==
  /\ call.at = "loop"
  /\ IndexByte(Slice(p, call.firstCharPos, Len(p)), NL) < 0
  /\ \E r \in {WriteTail(p, buf, bufSize,
                          [firstCharPos |-> call.firstCharPos,
                           lastChar |-> lastChar, lines |-> lines])} :
       /\ n' = r.n
       /\ err' = r.err
       /\ buf' = r.rw.buf
       /\ lastChar' = r.rw.lastChar
  /\ call' = [call EXCEPT !.at = "returned"]
  /\ UNCHANGED <<bufSize, p, lines, writes, requested, pending,
                 prevPending, prevOverflow, run, retries, panicked>>
  /\ UNCHANGED <<cmdVars, ioVars, sqVars, opVars, chVars>>

NextSync ==
  \/ SetLineBufferSize
  \/ WriteBegins
  \/ ProcessorCalled
  \/ ProcessorReturns
  \/ WriteReturns

\* A decoder whose Write calls are taken step by step, the processor
\* returning when it pleases or never.
SpecSync == Init /\ [][NextSync]_vars

NextOne == SetLineBufferSize \/ WriteOnce

\* A decoder that is created, optionally resized and written to once.
SpecOne == Init /\ [][NextOne]_vars

\* LineStream.SetLineBufferSize (stream.go:139), called at any moment of the
\* decoder's life.
SetLineBufferSizeAny ==
  /\ ~panicked
  /\ \E size \in BufSizes :
       /\ bufSize' = Resize(size).bufSize
       /\ buf' = Resize(size).buf
       /\ requested' = size
  /\ UNCHANGED <<lastChar, p, lines, n, err, writes,
                 pending, prevPending, prevOverflow, run, retries, panicked>>
  /\ UNCHANGED <<cmdVars, ioVars, sqVars, opVars, chVars, syVars>>

\* Write slices the line buffer at rw.lastChar as soon as its argument holds
\* a byte (stream.go:96 when a newline is found first, stream.go:108
\* otherwise); Go panics when that offset lies beyond the buffer.
Panics(q, b, rwLastChar) == q # <<>> /\ rwLastChar > Len(b)

\* LineStream.Write on a decoder that may have been resized between writes,
\* the call returning.
WriteAny ==
  /\ writes < MaxAnyWrites
  /\ ~panicked
  /\ \E q \in AnyInputs : ~Panics(q, buf, lastChar) /\ WriteCall(q)

\* LineStream.Write on a decoder that may have been resized between writes,
\* the call panicking before it has sent or stored anything.
WritePanics ==
  /\ writes < MaxAnyWrites
  /\ ~panicked
  /\ \E q \in AnyInputs :
       /\ Panics(q, buf, lastChar)
       /\ p' = q
       /\ writes' = writes + 1
       /\ panicked' = TRUE
  /\ UNCHANGED <<buf, bufSize, lastChar, lines, n, err, requested,
                 pending, prevPending, prevOverflow, run, retries>>
  /\ UNCHANGED <<cmdVars, ioVars, sqVars, opVars, chVars, syVars>>

NextAny == SetLineBufferSizeAny \/ WriteAny \/ WritePanics

\* A decoder that is written to and resized in any order.
SpecAny == Init /\ [][NextAny]_vars

\* ------------------------------------------------------ claims C1 .. C5

\* s is made of newline-terminated segments and holds no carriage return.
PlainLines(s) ==
  /\ s = <<>> \/ s[Len(s)] = NL
  /\ \A i \in 1..Len(s) : s[i] # CR

\* C1: an argument made of N newline-terminated segments without carriage
\* return, written in one call to a fresh decoder, makes Write call the line
\* processor N times, in input order, the k-th line being the k-th segment
\* without its newline, and return (len(p), nil).
C1_SegmentsEmitted ==
  (writes = 1 /\ PlainLines(p))
    => /\ Len(lines) = NLCount(p)
       /\ \A k \in 1..NLCount(p) : lines[k] = Segment(p, k)
       /\ n = Len(p)
       /\ err = NoErr

\* Two different non-empty segments were written in one call and came out in
\* their order.
C1_Witness ==
  /\ writes = 1 /\ PlainLines(p)
  /\ Len(lines) = 2
  /\ lines[1] # <<>> /\ lines[2] # <<>> /\ lines[1] # lines[2]
  /\ lines[1] = Segment(p, 1) /\ lines[2] = Segment(p, 2)

\* The last Write fitted the buffer: what was pending and p together are no
\* longer than the capacity asked for.
Fits == Len(prevPending) + Len(p) <= requested

\* C2 as stated: a newline-free write that fits emits nothing and returns
\* (len(p), nil); after such writes, the first write with a newline emits as
\* its first line the buffered bytes followed by the bytes before that
\* newline, and the carry is then empty.
C2_Original ==
  (run >= 1 /\ prevPending # <<>> /\ HasNL(p))
    => lines[1] = prevPending \o Segment(p, 1)

\* C2, amended: a newline-free write that fits emits nothing and returns
\* (len(p), nil); the first later write with a newline emits as its first
\* line the buffered bytes followed by the bytes before that newline less a
\* carriage return immediately before it; the carry restarts from empty at
\* that emission, so that afterwards it holds the unterminated tail of p at
\* most.
C2_CarryOver ==
  writes > 0 =>
    /\ (~HasNL(p) /\ Fits) => (lines = <<>> /\ n = Len(p) /\ err = NoErr)
    /\ HasNL(p) =>
         /\ lines[1] = prevPending \o StripCR(Segment(p, 1))
         /\ lastChar = IF err.overflow THEN 0 ELSE Len(Unterminated(p))

\* Two newline-free writes were buffered and the next write completed the
\* line.
C2_Witness ==
  /\ run >= 2 /\ HasNL(p)
  /\ Len(prevPending) >= 2
  /\ Len(Segment(p, 1)) >= 1
  /\ lines[1] = prevPending \o Segment(p, 1)

\* s is made of lines that all end in CR NL, with no other carriage return.
AllCRLF(s) ==
  /\ s # <<>> /\ s[Len(s)] = NL
  /\ \A k \in 1..NLCount(s) :
       LET seg == Segment(s, k) IN
       /\ seg # <<>> /\ seg[Len(seg)] = CR
       /\ \A i \in 1..(Len(seg) - 1) : seg[i] # CR

\* C3: when every line of a single write ends in CR NL, every emitted line
\* is the line's text without the CR and the NL, and no emitted line holds a
\* CR or an NL.
C3_CRLFStripped ==
  (writes = 1 /\ AllCRLF(p))
    => /\ Len(lines) = NLCount(p)
       /\ \A k \in 1..NLCount(p) :
            /\ lines[k] = StripCR(Segment(p, k))
            /\ \A i \in 1..Len(lines[k]) : lines[k][i] \notin {CR, NL}

\* C4: no byte of a line is lost: every emitted line is its segment of the
\* input, whole or less the carriage return that precedes the newline.
C4_NoByteLost ==
  writes = 1 =>
    /\ Len(lines) = NLCount(p)
    /\ \A k \in 1..NLCount(p) :
         lines[k] \in {Segment(p, k), StripCR(Segment(p, k))}

\* C5: the line processor is called once per newline of p, with or without
\* overflow, and a newline with nothing buffered and nothing before it in
\* its segment yields the empty line.
C5_BlankLines ==
  writes > 0 =>
    /\ Len(lines) = NLCount(p)
    /\ \A k \in 1..NLCount(p) :
         (Segment(p, k) = <<>> /\ (k > 1 \/ prevPending = <<>>))
           => lines[k] = <<>>

\* Two newlines in one write gave two empty lines.
C5_Witness ==
  /\ p = <<NL, NL>>
  /\ lines = << <<>>, <<>> >>

\* ----------------------------------------------------- claims C6 .. C10

\* What the caller knows to be buffered when the tail of p is examined:
\* nothing once a line of p was emitted, else what was pending before.
CarryAtTail == IF HasNL(p) THEN <<>> ELSE prevPending

\* C6: when the unterminated tail of p is longer than the free space, Write
\* emits every complete line of p, returns the offset just past the last
\* newline of p (0 without one) and an ErrLineBufferOverflow whose Line is
\* the buffered carry followed by the tail, whose BufferSize is the capacity
\* and whose BufferFree is the capacity less the carry length.
C6_OverflowResult ==
  (writes > 0 /\ Len(Unterminated(p)) > requested - Len(CarryAtTail))
    => /\ err.overflow
       /\ Len(lines) = NLCount(p)
       /\ n = Len(p) - Len(Unterminated(p))
       /\ err.Line = CarryAtTail \o Unterminated(p)
       /\ err.BufferSize = requested
       /\ err.BufferFree = requested - Len(CarryAtTail)

\* A write without newline overflowed a buffer that already held bytes and
\* still had room.
C6_Witness ==
  /\ err.overflow /\ ~HasNL(p) /\ n = 0
  /\ prevPending # <<>>
  /\ err.BufferFree > 0
  /\ err.Line = prevPending \o p

\* C7: Write overflows if and only if the tail is longer than the capacity
\* less the carry length; a tail of exactly that length is buffered, Write
\* returns (len(p), nil) and the carry length equals the capacity.
C7_OverflowBoundary ==
  writes > 0 =>
    /\ err.overflow <=> Len(Unterminated(p)) > requested - Len(CarryAtTail)
    /\ Len(Unterminated(p)) = requested - Len(CarryAtTail)
         => (n = Len(p) /\ err = NoErr /\ lastChar = requested)

\* A tail filled a partly filled buffer exactly.
C7_Witness ==
  /\ writes > 0 /\ err = NoErr
  /\ CarryAtTail # <<>> /\ Unterminated(p) # <<>>
  /\ Len(Unterminated(p)) = requested - Len(CarryAtTail)
  /\ lastChar = requested

\* C8: an overflowing Write buffers nothing of the rejected tail: the carry
\* is what it was when the tail was examined; and writing the rejected tail
\* again as-is returns 0 and the same error, leaving the decoder as it was.
C8_OverflowKeepsCarry ==
  [][(writes' = writes + 1)
       => /\ err'.overflow
            => Slice(buf', 0, lastChar')
                 = (IF HasNL(p') THEN <<>> ELSE Slice(buf, 0, lastChar))
          /\ (err.overflow /\ p' = Slice(p, n, Len(p)))
            => (n' = 0 /\ err' = err /\ buf' = buf /\ lastChar' = lastChar
                /\ lines' = <<>>)]_vars

\* The rejected tail was written again while bytes were buffered, and was
\* rejected again with the buffer as it was.
C8_Witness ==
  /\ retries >= 1 /\ err.overflow /\ n = 0
  /\ lastChar > 0 /\ pending = prevPending
  /\ err.Line = prevPending \o p

\* s is one line: bytes without newline followed by a newline.
OneLine(s) == Len(s) >= 1 /\ s[Len(s)] = NL /\ NLCount(s) = 1

\* C9 as stated: after an overflow, a Write of s followed by a newline
\* returns (len(s)+1, nil) and emits exactly one line, equal to s, also when
\* bytes were buffered before the overflowing write.
C9_Original ==
  (prevOverflow /\ OneLine(p) /\ \A i \in 1..Len(p) : p[i] # CR)
    => (n = Len(p) /\ err = NoErr /\ lines = <<Segment(p, 1)>>)

\* C9, amended: after an overflow, a Write of s followed by a newline returns
\* (len(s)+1, nil) and emits exactly one line; the line holds no byte of the
\* rejected tail: it is the bytes that were buffered when the overflow was
\* returned, followed by s less a carriage return that ends s.
C9_UsableAfterOverflow ==
  (prevOverflow /\ OneLine(p))
    => /\ n = Len(p)
       /\ err = NoErr
       /\ lines = <<prevPending \o StripCR(Segment(p, 1))>>
       /\ lastChar = 0

\* A line was written after an overflow that had left bytes in the buffer.
C9_Witness ==
  /\ prevOverflow /\ OneLine(p) /\ Len(p) > 1
  /\ prevPending # <<>>
  /\ lines = <<prevPending \o Segment(p, 1)>>

\* C10: SetLineBufferSize(size) right after New makes size the capacity: an
\* unterminated line of at most size bytes is buffered without error and is
\* emitted whole when its newline arrives, an overflow reports BufferSize =
\* size, and with twice the default capacity a first write whose tail
\* overflows the default capacity returns no error.
C10_SetLineBufferSize ==
  /\ bufSize = requested
  /\ Len(buf) = requested
  /\ writes > 0 =>
       /\ (~HasNL(p) /\ Fits)
            => /\ n = Len(p) /\ err = NoErr
               /\ Slice(buf, 0, lastChar) = prevPending \o p
       /\ HasNL(p) => lines[1] = prevPending \o StripCR(Segment(p, 1))
       /\ err.overflow => err.BufferSize = requested
       /\ (writes = 1 /\ requested = 2 * DefaultLineBufferSize
             /\ Len(Unterminated(p)) <= 2 * DefaultLineBufferSize)
            => err = NoErr

\* With the capacity doubled, a first write left more bytes in the buffer
\* than the default capacity holds.
C10_Witness ==
  /\ writes = 1 /\ requested = 2 * DefaultLineBufferSize
  /\ bufSize = 2 * DefaultLineBufferSize
  /\ Len(Unterminated(p)) > DefaultLineBufferSize
  /\ err = NoErr /\ n = Len(p)
  /\ lastChar = Len(Unterminated(p))

\* ---------------------------------------------------- claims C11 .. C12

\* C11: SetLineBufferSize resets the carry length to 0: whatever writes came
\* before it, a step of SetLineBufferSize (the only step that leaves the
\* number of Write calls as it is) ends with no buffered byte.
C11_ResizeClearsCarry == [][writes' = writes => lastChar' = 0]_vars

\* C12: in every state reachable by any sequence of Write and
\* SetLineBufferSize calls the carry length lies between 0 and the length of
\* the line buffer, which is the configured capacity, so that no Write
\* slices the buffer out of its bounds.
C12_CarryWithinCapacity ==
  /\ 0 <= lastChar
  /\ lastChar <= Len(buf)
  /\ Len(buf) = bufSize
  /\ ~panicked

\* ======================================================================
\* Part 2: gocmd.Cmd
\* ======================================================================

\* ------------------------------------------------- pieces of Cmd's code

\* checkExecuted returning in every case.
checkExecutedSilent(executed, property) == [panic |-> FALSE, property |-> ""]

\* Cmd.checkExecuted (cmd.go:210-216): whether the accessor panics, and the
\* property its message "Can not read <property> if command was not
\* Executed." names.
checkExecuted(executed, property) ==
  IF executed
  THEN [panic |-> FALSE, property |-> ""]
  ELSE [panic |-> TRUE, property |-> property]

\* TimeoutCtx with a Timeout of zero taken as a timeout.
TimeoutCtxNonNegative(timeout, deadline) == timeout >= 0 /\ ~deadline

\* TimeoutCtx without a look at the caller's deadline.
TimeoutCtxAlways(timeout, deadline) == timeout > 0

\* Run's decision to wrap the caller's context with c.Timeout (cmd.go:234-235).
TimeoutCtx(timeout, deadline) == timeout > 0 /\ ~deadline

\* ExecutedOnReturn with the assignment made on the completion branch only.
ExecutedOnlyWhenCompleted(path, executed) ==
  IF path = "completed" THEN TRUE ELSE executed

\* ExecutedOnReturn with the assignment deferred before cmd.Start.
ExecutedOnReturnAlways(path, executed) == TRUE

\* The deferred assignment of Run (cmd.go:245-247): registered after the
\* early return of a failed start, it runs on the two returns of the select.
ExecutedOnReturn(path, executed) ==
  IF path = "start failed" THEN executed ELSE TRUE

\* getExitCode leaving the exit code as it is.
getExitCodeIgnored(code, waitResult) == code

\* Cmd.getExitCode (cmd.go:274-281): the exit code after the value that
\* cmd.Wait returned has been looked at.
getExitCode(code, waitResult) ==
  IF waitResult.kind = "ExitError" THEN waitResult.status ELSE code

\* CancelReady with the cancellation branch held back until the process
\* has exited.
CancelReadyAfterExit(ctxError, process) ==
  ctxError # "nil" /\ process = "exited"

\* The case <-ctx.Done() of Run's select (cmd.go:255) can be taken: the
\* context is done, whatever the process does.
CancelReady(ctxError, process) == ctxError # "nil"

\* CancelResult with nil returned once the signal is sent.
CancelResultNil(killed, wrapped, timeout, ctxError, processId) ==
  IF ~killed THEN KillError(processId) ELSE NilError

\* CancelResult without a look at the result of syscall.Kill.
CancelResultKillIgnored(killed, wrapped, timeout, ctxError, processId) ==
  IF wrapped THEN TimeoutAfter(timeout) ELSE CtxError(ctxError)

\* CancelResult without the "timeout after" message.
CancelResultCtxOnly(killed, wrapped, timeout, ctxError, processId) ==
  IF ~killed THEN KillError(processId) ELSE CtxError(ctxError)

\* The error Run returns from its cancellation branch (cmd.go:260-267).
CancelResult(killed, wrapped, timeout, ctxError, processId) ==
  IF ~killed THEN KillError(processId)
  ELSE IF wrapped THEN TimeoutAfter(timeout)
  ELSE CtxError(ctxError)

\* The error errors.New(stderr) of the one-shot helper (cmd.go:88); its
\* text is kept beside it.
StderrError == [kind |-> "stderr", arg |-> 0]

\* The one-shot helper returning the captured stdout whenever c.Run
\* returned nil.
RunStderrIgnored(runErr, stdout, stderr) ==
  IF runErr # NilError
  THEN [called |-> TRUE, out |-> <<>>, err |-> runErr, text |-> <<>>]
  ELSE [called |-> TRUE, out |-> stdout, err |-> NilError, text |-> <<>>]

\* What the one-shot helper Run(cmd, options...) returns (cmd.go:84-91)
\* after c.Run returned runErr with the two buffers as given.
Run(runErr, stdout, stderr) ==
  IF runErr # NilError
  THEN [called |-> TRUE, out |-> <<>>, err |-> runErr, text |-> <<>>]
  ELSE IF stderr # <<>>
  THEN [called |-> TRUE, out |-> <<>>, err |-> StderrError, text |-> stderr]
  ELSE [called |-> TRUE, out |-> stdout, err |-> NilError, text |-> <<>>]

\* The place of a sink in a fan-out, 0 when it is not in it.
RECURSIVE IndexOf(_, _)
IndexOf(list, name) ==
  IF list = <<>> THEN 0
  ELSE IF Head(list) = name THEN 1
  ELSE IF IndexOf(Tail(list), name) = 0 THEN 0
  ELSE 1 + IndexOf(Tail(list), name)

\* The fan-out of a stream (cmd.go:228-229).
Writer(stream) == IF stream = "stdout" THEN StdoutWriter ELSE stderrWriter

\* The sinks only one copying task writes to, as one value.
Sinks == [StdoutBuf |-> StdoutBuf, StderrBuf |-> StderrBuf, ext |-> ext]

\* Write of one sink other than CombinedBuf: bytes.Buffer, os.File and the
\* writers of the caller take the whole chunk.
WriteOne(name, chunk, st) ==
  CASE name = "StdoutBuf" -> [st EXCEPT !.StdoutBuf = @ \o chunk]
    [] name = "StderrBuf" -> [st EXCEPT !.StderrBuf = @ \o chunk]
    [] OTHER -> [st EXCEPT !.ext[name] = @ \o chunk]

\* The loop of io.MultiWriter.Write over a run of sinks, in their order.
RECURSIVE WriteEach(_, _, _)
WriteEach(names, chunk, st) ==
  IF names = <<>> THEN st
  ELSE WriteEach(Tail(names), chunk, WriteOne(Head(names), chunk, st))

\* The sinks of a fan-out before CombinedBuf, and those after it.
Before(list) ==
  IF IndexOf(list, "CombinedBuf") = 0 THEN list
  ELSE SubSeq(list, 1, IndexOf(list, "CombinedBuf") - 1)
After(list) ==
  IF IndexOf(list, "CombinedBuf") = 0 THEN <<>>
  ELSE SubSeq(list, IndexOf(list, "CombinedBuf") + 1, Len(list))

\* bytes.Buffer.Write, second half: the buffer is resliced to the length
\* loaded in the first half plus the chunk, and the chunk is copied at that
\* length. Bytes of the array past the new length stay in the array.
BufferStore(visible, tail, m, chunk) ==
  LET whole == visible \o tail
      kept == SubSeq(whole, 1, m)
  IN [buf |-> kept \o chunk,
      tail |-> SubSeq(whole, m + Len(chunk) + 1, Len(whole))]

\* The elements of a sequence.
Range(seq) == {seq[i] : i \in DOMAIN seq}

\* os.Getenv against the environment of the calling process: the value
\* of the variable, the empty text when it is not set.
RECURSIVE Lookup(_, _)
Lookup(environ, name) ==
  IF environ = <<>> THEN <<>>
  ELSE IF Head(environ).key = name THEN Head(environ).value
  ELSE Lookup(Tail(environ), name)
Getenv(name) == Lookup(Environ, name)

\* os.ExpandEnv (cmd.go:182): every reference ${VAR} is replaced by the
\* value of VAR in the environment of the calling process. The result is
\* the concatenation of the texts, kept as their sequence.
RECURSIVE ExpandEnv(_)
ExpandEnv(value) ==
  IF value = <<>> THEN <<>>
  ELSE (IF Head(value).var THEN Getenv(Head(value).text)
        ELSE <<Head(value).text>>) \o ExpandEnv(Tail(value))

\* append(c.Env, entry) (cmd.go:183): a nil slice is an empty one.
AppendEnv(env, entry) == EnvOf(Append(env.entries, entry))

\* Cmd.AddEnv (cmd.go:181-184): the entry "key=value" with the value
\* expanded goes to the end of c.Env.
AddEnv(env, key, value) ==
  AppendEnv(env, [key |-> key, value |-> ExpandEnv(value)])

\* The loop of WithEnv (cmd.go:166-168) over the keys in some order.
RECURSIVE AddEach(_, _, _)
AddEach(env, order, values) ==
  IF order = <<>> THEN env
  ELSE AddEach(AddEnv(env, Head(order), values[Head(order)]), Tail(order),
               values)

\* The orders in which a range over a map can visit its keys.
Orders(keys) ==
  {order \in [1..Cardinality(keys) -> keys] : Range(order) = keys}

\* The environment of the process started with cmd.Env = c.Env
\* (cmd.go:226): os/exec starts the process with the entries of a non-nil
\* Env, and with the environment of the calling process when Env is nil.
ProcessEnviron(env) == IF env.nil THEN Environ ELSE env.entries

\* The bytes of one stream among some bytes, in their order.
OfStream(bytes, stream) ==
  SelectSeq(bytes, LAMBDA b : b \in {StreamBytes(stream)[1],
                                     StreamBytes(stream)[2]})

\* The next byte of a stream, after those already delivered.
NextChunk(stream, delivered) ==
  <<StreamBytes(stream)[(Len(OfStream(delivered, stream)) % 2) + 1]>>

\* The fields New has set before it applies the options (cmd.go:64-71).
Defaults ==
  [Timeout |-> DefaultTimeout,
   StdoutWriter |-> NewStdoutWriter,
   stderrWriter |-> NewStderrWriter,
   Env |-> EnvOf(Environ),
   attached |-> [t \in Streams |-> {}]]

\* Option functions handed to New: the closures of TestCommand_SetOptions
\* (cmd_test.go:120-125), which assign c.Timeout = 1 second and
\* c.StdoutWriter = writer, the option WithStdout(writer), and a closure
\* that calls c.AddEnv("key", "value").
SetTimeout == [op |-> "c.Timeout =", t |-> 1]
SetWriter == [op |-> "c.StdoutWriter =", writers |-> <<"w">>]
StdoutOption == [op |-> "WithStdout", writers |-> <<"w">>]
AddEnvOption ==
  [op |-> "c.AddEnv", key |-> "key",
   value |-> <<[var |-> FALSE, text |-> "value"]>>]
Options == {SetTimeout, SetWriter, StdoutOption, AddEnvOption}

\* The lists of at most k options.
RECURSIVE OptionsUpTo(_)
OptionsUpTo(k) ==
  IF k = 0 THEN {<<>>}
  ELSE LET shorter == OptionsUpTo(k - 1)
       IN shorter \cup {Append(s, o) : s \in shorter, o \in Options}

OptionLists == OptionsUpTo(MaxOptions)

\* o(c) (cmd.go:74): what one option function does to the fields of c.
ApplyOption(c, o) ==
  CASE o.op = "c.Timeout =" -> [c EXCEPT !.Timeout = o.t]
    [] o.op = "c.StdoutWriter =" ->
         [c EXCEPT !.StdoutWriter = o.writers,
                   !.attached["stdout"] = @ \cup Range(o.writers)]
    [] o.op = "WithStdout" ->
         [c EXCEPT !.StdoutWriter = <<"StdoutBuf", "CombinedBuf">> \o o.writers,
                   !.attached["stdout"] = @ \cup Range(o.writers)]
    [] o.op = "c.AddEnv" -> [c EXCEPT !.Env = AddEnv(@, o.key, o.value)]

\* The loop over the options (cmd.go:73-75), from the first to the last.
RECURSIVE ApplyOptions(_, _)
ApplyOptions(c, list) ==
  IF list = <<>> THEN c
  ELSE ApplyOptions(ApplyOption(c, Head(list)), Tail(list))

\* A sequence from its last element to its first.
Reverse(seq) == [i \in 1..Len(seq) |-> seq[Len(seq) + 1 - i]]

\* The options applied from the last to the first.
NewConfigReversed(list) == ApplyOptions(Defaults, Reverse(list))

\* The fields of the Cmd that New returns (cmd.go:63-78).
NewConfig(list) == ApplyOptions(Defaults, list)

\* ------------------------------------------------------ shellquote.Quote

\* Characters of a token, as one-character strings: the byte 0, the single
\* quote, the double quote, the backslash, the space, the equal sign and a
\* letter.
NUL == "\\x00"
Quo == "'"
DQu == "\""
BSl == "\\"
Spc == " "
Equ == "="
QuoteChars == {NUL, Quo, DQu, BSl, Spc, Equ, "a"}

\* The lists of at most k tokens with at most len characters together.
RECURSIVE TokenLists(_, _)
TokenLists(k, len) ==
  IF k = 0 THEN {<<>>}
  ELSE {<<>>} \cup
       UNION { {<<t>> \o rest : rest \in TokenLists(k - 1, len - Len(t))} :
                 t \in BytesUpTo(QuoteChars, len) }

\* Arguments of Quote and of QuoteMust.
QuoteInputs == TokenLists(MaxTokens, MaxQuoteLen)

\* The values of the error Quote returns.
ErrNil == "nil"
ErrNull == "no way to quote string containing null bytes"

\* strings.Contains(x, c) for a character c.
Contains(x, c) == \E i \in DOMAIN x : x[i] = c

\* The test for a byte 0 looking at the first character only.
HasNullFirstOnly(x) == x[1] = NUL

\* strings.Contains(x, "\x00") (shellquote.go:44).
HasNull(x) == Contains(x, NUL)

\* The characters [\w!%+,\-./:=@^] that toEsc does not match
\* (shellquote.go:58), among those of the tokens.
SafeChars ==
  {"a", "!", "%", "+", ",", "-", ".", "/", ":", Equ, "@", "^"}

\* toEsc.MatchString(x) (shellquote.go:59).
ToEscMatch(x) == \E i \in DOMAIN x : x[i] \notin SafeChars

\* The text '\'' that replaces a single quote (shellquote.go:64).
EscapedQuote == <<Quo, BSl, Quo, Quo>>

\* strings.ReplaceAll(x, "'", "'\''") (shellquote.go:64).
RECURSIVE ReplaceAll(_)
ReplaceAll(x) ==
  IF x = <<>> THEN <<>>
  ELSE (IF Head(x) = Quo THEN EscapedQuote ELSE <<Head(x)>>)
         \o ReplaceAll(Tail(x))

\* The number of texts '\'' that follow each other in y from place i on.
RECURSIVE Repeats(_, _)
Repeats(y, i) ==
  IF i + 3 <= Len(y) /\ SubSeq(y, i, i + 3) = EscapedQuote
  THEN 1 + Repeats(y, i + 4)
  ELSE 0

\* k single quotes.
Quotes(k) == [i \in 1..k |-> Quo]

\* simplifyRe.ReplaceAllStringFunc (shellquote.go:66-73): from left to
\* right, every longest run of two or more '\'' becomes '"..."' with one
\* single quote per text of the run between the double quotes.
RECURSIVE Simplify(_, _)
Simplify(y, i) ==
  IF i > Len(y) THEN <<>>
  ELSE IF Repeats(y, i) >= 2
  THEN <<Quo, DQu>> \o Quotes(Repeats(y, i)) \o <<DQu, Quo>>
         \o Simplify(y, i + 4 * Repeats(y, i))
  ELSE <<y[i]>> \o Simplify(y, i + 1)

\* strings.TrimSuffix(y, "''") and strings.TrimPrefix(y, "''")
\* (shellquote.go:76-77).
TrimSuffix(y) ==
  IF Len(y) >= 2 /\ SubSeq(y, Len(y) - 1, Len(y)) = <<Quo, Quo>>
  THEN SubSeq(y, 1, Len(y) - 2) ELSE y
TrimPrefix(y) ==
  IF Len(y) >= 2 /\ SubSeq(y, 1, 2) = <<Quo, Quo>>
  THEN SubSeq(y, 3, Len(y)) ELSE y

\* Quoted with the single quotes of the token left as they are.
QuotedNoReplace(x) == <<Quo>> \o x \o <<Quo>>

\* The quoted form of a token (shellquote.go:64-79).
Quoted(x) ==
  TrimPrefix(TrimSuffix(<<Quo>> \o Simplify(ReplaceAll(x), 1) \o <<Quo>>))

\* strings.Join(tmp, " ") (shellquote.go:85).
RECURSIVE Join(_)
Join(tmp) ==
  IF tmp = <<>> THEN <<>>
  ELSE IF Len(tmp) = 1 THEN tmp[1]
  ELSE tmp[1] \o <<Spc>> \o Join(Tail(tmp))

\* The loop of Quote (shellquote.go:39-83) from token i on, and its return
\* (shellquote.go:45, 85).
RECURSIVE QuoteLoop(_, _, _, _)
QuoteLoop(in, i, tmp, sawNonEqual) ==
  IF i > Len(in) THEN [out |-> Join(tmp), err |-> ErrNil]
  ELSE IF in[i] = <<>>
  THEN QuoteLoop(in, i + 1, Append(tmp, <<Quo, Quo>>), sawNonEqual)
  ELSE IF HasNull(in[i]) THEN [out |-> <<>>, err |-> ErrNull]
  ELSE LET x == in[i]
           hasEqual == Contains(x, Equ)
           saw == sawNonEqual \/ ~hasEqual
           escape == (hasEqual /\ ~sawNonEqual) \/ ToEscMatch(x)
       IN QuoteLoop(in, i + 1,
                    Append(tmp, IF escape \/ (~saw /\ hasEqual)
                                THEN Quoted(x) ELSE x),
                    saw)

\* shellquote.Quote (shellquote.go:36-86).
Quote(in) == QuoteLoop(in, 1, <<>>, FALSE)

\* shellquote.QuoteMust (shellquote.go:23-30): whether it panics, and
\* with which error, or what it returns.
QuoteMust(in) ==
  IF Quote(in).err # ErrNil
  THEN [out |-> <<>>, err |-> Quote(in).err, panic |-> TRUE]
  ELSE [out |-> Quote(in).out, err |-> ErrNil, panic |-> FALSE]

\* Tokens are chosen, for a call of Quote or QuoteMust to come.
InitQuote ==
  /\ NewLineStream /\ NewCmd /\ NoChunks /\ call = NoCall
  /\ options = NoOptions
  /\ quote \in {Pending(tokens) : tokens \in QuoteInputs}

\* A call of Quote with the chosen tokens.
QuoteCall ==
  /\ quote.fn = ""
  /\ \E r \in {Quote(quote.tokens)} :
       quote' = [fn |-> "Quote", tokens |-> quote.tokens, out |-> r.out,
                 err |-> r.err, panic |-> FALSE]
  /\ UNCHANGED <<lsVars, chVars, syVars, cmdVars, ioVars, opVars>>

\* A call of QuoteMust with the chosen tokens.
QuoteMustCall ==
  /\ quote.fn = ""
  /\ \E r \in {QuoteMust(quote.tokens)} :
       quote' = [fn |-> "QuoteMust", tokens |-> quote.tokens, out |-> r.out,
                 err |-> r.err, panic |-> r.panic]
  /\ UNCHANGED <<lsVars, chVars, syVars, cmdVars, ioVars, opVars>>

NextQuote ==
  \/ QuoteCall
  \/ QuoteMustCall

\* One call of the shellquote package.
SpecQuote == InitQuote /\ [][NextQuote]_vars

\* ----------------------------------------------------- actions of Cmd

\* The option WithTimeout(t) (cmd.go:150-154), applied by New.
WithTimeout ==
  /\ pc = "new"
  /\ \E t \in Timeouts : Timeout' = t
  /\ UNCHANGED <<Executed, exitCode, StdoutBuf, StderrBuf, CombinedBuf, pc,
                 hasDeadline, timeoutCtx, ctxErr, cause, pid, proc, exitStatus,
                 waiter, waitErr, signal, sigTarget, ret, access>>
  /\ UNCHANGED <<lsVars, chVars, syVars, ioVars, sqVars, opVars>>

\* Run(ctx) up to a cmd.Start that fails (cmd.go:219-244).
RunStartFails ==
  /\ pc = "new"
  /\ \E deadline \in BOOLEAN :
       /\ hasDeadline' = deadline
       /\ timeoutCtx' = TimeoutCtx(Timeout, deadline)
  /\ ret' = StartError
  /\ Executed' = ExecutedOnReturn("start failed", Executed)
  /\ pc' = "returned"
  /\ UNCHANGED <<Timeout, exitCode, StdoutBuf, StderrBuf, CombinedBuf,
                 ctxErr, cause, pid, proc, exitStatus, waiter, waitErr,
                 signal, sigTarget, access>>
  /\ UNCHANGED <<lsVars, chVars, syVars, ioVars, sqVars, opVars>>

\* Run(ctx) up to its select (cmd.go:219-254): the process is started in its
\* own group with c.Env and the task that calls cmd.Wait is spawned.
RunStarts ==
  /\ pc = "new"
  /\ \E deadline \in BOOLEAN :
       /\ hasDeadline' = deadline
       /\ timeoutCtx' = TimeoutCtx(Timeout, deadline)
  /\ \E processId \in Pids : pid' = processId
  /\ proc' = "running"
  /\ waiter' = "waiting"
  /\ pc' = "select"
  /\ procEnv' = ProcessEnviron(Env)
  /\ UNCHANGED <<Timeout, Executed, exitCode, StdoutBuf, StderrBuf,
                 CombinedBuf, ctxErr, cause, exitStatus, waitErr, signal,
                 sigTarget, ret, access>>
  /\ UNCHANGED <<StdoutWriter, stderrWriter, ext, attached, copier,
                 combinedTail, sent, Env, envCall,
                 oneShot>>
  /\ UNCHANGED <<lsVars, chVars, syVars, sqVars, opVars>>

\* The caller cancels the context it handed to Run.
CallerCancels ==
  /\ pc = "select"
  /\ ctxErr = "nil"
  /\ ctxErr' = Canceled
  /\ cause' = "caller"
  /\ UNCHANGED <<Timeout, Executed, exitCode, StdoutBuf, StderrBuf,
                 CombinedBuf, pc, hasDeadline, timeoutCtx, pid, proc,
                 exitStatus, waiter, waitErr, signal, sigTarget, ret, access>>
  /\ UNCHANGED <<lsVars, chVars, syVars, ioVars, sqVars, opVars>>

\* The deadline of the caller's context passes.
CallerDeadline ==
  /\ pc = "select"
  /\ hasDeadline
  /\ ctxErr = "nil"
  /\ ctxErr' = DeadlineExceeded
  /\ cause' = "caller"
  /\ UNCHANGED <<Timeout, Executed, exitCode, StdoutBuf, StderrBuf,
                 CombinedBuf, pc, hasDeadline, timeoutCtx, pid, proc,
                 exitStatus, waiter, waitErr, signal, sigTarget, ret, access>>
  /\ UNCHANGED <<lsVars, chVars, syVars, ioVars, sqVars, opVars>>

\* The deadline of the context derived with context.WithTimeout(ctx,
\* c.Timeout) passes (cmd.go:237).
TimerFires ==
  /\ pc = "select"
  /\ timeoutCtx
  /\ ctxErr = "nil"
  /\ ctxErr' = DeadlineExceeded
  /\ cause' = "timer"
  /\ UNCHANGED <<Timeout, Executed, exitCode, StdoutBuf, StderrBuf,
                 CombinedBuf, pc, hasDeadline, timeoutCtx, pid, proc,
                 exitStatus, waiter, waitErr, signal, sigTarget, ret, access>>
  /\ UNCHANGED <<lsVars, chVars, syVars, ioVars, sqVars, opVars>>

\* A copying task of os/exec reads a chunk of its stream and calls Write of
\* the stream's fan-out (cmd.go:228-229, built at cmd.go:70-71). The sinks
\* before CombinedBuf take the chunk; CombinedBuf.Write begins and loads the
\* length of the buffer. The two tasks share CombinedBuf and nothing
\* orders their Writes.
CopyBegins ==
  /\ waiter = "waiting"
  /\ Len(sent) < MaxOutput
  /\ \E t \in Streams :
       /\ copier[t].at = "idle"
       /\ \E chunk \in {NextChunk(t, sent)} :
            /\ \E st \in {WriteEach(Before(Writer(t)), chunk, Sinks)} :
                 /\ StdoutBuf' = st.StdoutBuf
                 /\ StderrBuf' = st.StderrBuf
                 /\ ext' = st.ext
            /\ sent' = sent \o chunk
            /\ copier' =
                 IF IndexOf(Writer(t), "CombinedBuf") = 0 THEN copier
                 ELSE [copier EXCEPT ![t] = [at |-> "combined",
                                             m |-> Len(CombinedBuf),
                                             chunk |-> chunk]]
  /\ UNCHANGED <<Timeout, Executed, exitCode, CombinedBuf, pc, hasDeadline,
                 timeoutCtx, ctxErr, cause, pid, proc, exitStatus, waiter,
                 waitErr, signal, sigTarget, ret, access>>
  /\ UNCHANGED <<StdoutWriter, stderrWriter, attached, combinedTail, Env,
                 envCall, procEnv, oneShot>>
  /\ UNCHANGED <<lsVars, chVars, syVars, sqVars, opVars>>

\* The Write begun by CopyBegins ends: CombinedBuf stores the chunk at the
\* length it loaded, and the sinks after CombinedBuf take the chunk.
CopyEnds ==
  /\ \E t \in Streams :
       /\ copier[t].at = "combined"
       /\ \E b \in {BufferStore(CombinedBuf, combinedTail, copier[t].m,
                                 copier[t].chunk)} :
            /\ CombinedBuf' = b.buf
            /\ combinedTail' = b.tail
       /\ \E st \in {WriteEach(After(Writer(t)), copier[t].chunk, Sinks)} :
            /\ StdoutBuf' = st.StdoutBuf
            /\ StderrBuf' = st.StderrBuf
            /\ ext' = st.ext
       /\ copier' = [copier EXCEPT ![t] = Idle]
  /\ UNCHANGED <<Timeout, Executed, exitCode, pc, hasDeadline, timeoutCtx,
                 ctxErr, cause, pid, proc, exitStatus, waiter, waitErr,
                 signal, sigTarget, ret, access>>
  /\ UNCHANGED <<StdoutWriter, stderrWriter, attached, sent, Env, envCall,
                 procEnv, oneShot>>
  /\ UNCHANGED <<lsVars, chVars, syVars, sqVars, opVars>>

\* The command exits, of its own or on a signal it handles.
ProcExits ==
  /\ proc = "running"
  /\ proc' = "exited"
  /\ \E status \in ExitStatuses : exitStatus' = status
  /\ UNCHANGED <<Timeout, Executed, exitCode, StdoutBuf, StderrBuf,
                 CombinedBuf, pc, hasDeadline, timeoutCtx, ctxErr, cause, pid,
                 waiter, waitErr, signal, sigTarget, ret, access>>
  /\ UNCHANGED <<lsVars, chVars, syVars, ioVars, sqVars, opVars>>

\* cmd.Wait returns in the spawned task (cmd.go:251), once the process has
\* exited and the copying tasks have ended; the task then offers the value
\* on the unbuffered channel done (cmd.go:249).
WaitReturns ==
  /\ waiter = "waiting"
  /\ proc = "exited"
  /\ \A t \in Streams : copier[t].at = "idle"
  /\ waiter' = "sending"
  /\ \E w \in (IF exitStatus # 0 THEN {ExitError(exitStatus)}
                ELSE {WaitNil, CopyError}) : waitErr' = w
  /\ UNCHANGED <<Timeout, Executed, exitCode, StdoutBuf, StderrBuf,
                 CombinedBuf, pc, hasDeadline, timeoutCtx, ctxErr, cause, pid,
                 proc, exitStatus, signal, sigTarget, ret, access>>
  /\ UNCHANGED <<lsVars, chVars, syVars, ioVars, sqVars, opVars>>

\* Run takes the case err := <-done of its select (cmd.go:268-270).
RunCompletes ==
  /\ pc = "select"
  /\ waiter = "sending"
  /\ waiter' = "finished"
  /\ exitCode' = getExitCode(exitCode, waitErr)
  /\ ret' = NilError
  /\ Executed' = ExecutedOnReturn("completed", Executed)
  /\ pc' = "returned"
  /\ UNCHANGED <<Timeout, StdoutBuf, StderrBuf, CombinedBuf, hasDeadline,
                 timeoutCtx, ctxErr, cause, pid, proc, exitStatus, waitErr,
                 signal, sigTarget, access>>
  /\ UNCHANGED <<lsVars, chVars, syVars, ioVars, sqVars, opVars>>

\* Run takes the case <-ctx.Done() of its select (cmd.go:255-267): it
\* signals the process group, which the system accepts or refuses, and
\* returns without waiting for the process.
RunCancelled ==
  /\ pc = "select"
  /\ CancelReady(ctxErr, proc)
  /\ \E killed \in BOOLEAN :
       /\ signal' = IF killed THEN "sent" ELSE "failed"
       /\ ret' = CancelResult(killed, timeoutCtx, Timeout, ctxErr, pid)
  /\ sigTarget' = -1 * pid
  /\ Executed' = ExecutedOnReturn("cancelled", Executed)
  /\ pc' = "returned"
  /\ UNCHANGED <<Timeout, exitCode, StdoutBuf, StderrBuf, CombinedBuf,
                 hasDeadline, timeoutCtx, ctxErr, cause, pid, proc, exitStatus,
                 waiter, waitErr, access>>
  /\ UNCHANGED <<lsVars, chVars, syVars, ioVars, sqVars, opVars>>

\* The caller reads a result through Stdout, Stderr, Combined or ExitCode
\* (cmd.go:186-208), before Run or after it has returned.
Access ==
  /\ pc \in {"new", "returned"}
  /\ \E a \in Accessors :
       \E r \in {checkExecuted(Executed, a)} :
         access' = [name |-> a, at |-> pc, executed |-> Executed,
                    panic |-> r.panic, property |-> r.property]
  /\ UNCHANGED <<Timeout, Executed, exitCode, StdoutBuf, StderrBuf,
                 CombinedBuf, pc, hasDeadline, timeoutCtx, ctxErr, cause, pid,
                 proc, exitStatus, waiter, waitErr, signal, sigTarget, ret>>
  /\ UNCHANGED <<lsVars, chVars, syVars, ioVars, sqVars, opVars>>

\* The one-shot helper Run(cmd, options...) (cmd.go:81-92) returns: it built
\* the Cmd with New, called c.Run with context.Background(), which has no
\* deadline and is never cancelled, and collapses the result.
OneShotReturns ==
  /\ pc = "returned"
  /\ ~hasDeadline
  /\ cause # "caller"
  /\ ~oneShot.called
  /\ oneShot' = Run(ret, StdoutBuf, StderrBuf)
  /\ UNCHANGED <<StdoutWriter, stderrWriter, ext, attached, copier,
                 combinedTail, sent, Env, envCall, procEnv>>
  /\ UNCHANGED <<lsVars, chVars, syVars, cmdVars, sqVars, opVars>>

NextCmd ==
  \/ WithTimeout
  \/ RunStartFails
  \/ RunStarts
  \/ CallerCancels
  \/ CallerDeadline
  \/ TimerFires
  \/ CopyBegins
  \/ CopyEnds
  \/ ProcExits
  \/ WaitReturns
  \/ RunCompletes
  \/ RunCancelled
  \/ Access
  \/ OneShotReturns

\* One Cmd: constructed, configured, run once and read.
SpecCmd == Init /\ [][NextCmd]_vars

\* The option WithStdStreams() (cmd.go:118-123), applied by New: both
\* fan-outs are built anew from the standard stream of the calling process
\* and the two buffers.
WithStdStreams ==
  /\ pc = "new"
  /\ StdoutWriter' = <<"os.Stdout", "StdoutBuf", "CombinedBuf">>
  /\ stderrWriter' = <<"os.Stderr", "StderrBuf", "CombinedBuf">>
  /\ attached' = [attached EXCEPT !["stdout"] = @ \cup {"os.Stdout"},
                                  !["stderr"] = @ \cup {"os.Stderr"}]
  /\ UNCHANGED <<ext, copier, combinedTail, sent, Env, envCall, procEnv,
                 oneShot>>
  /\ UNCHANGED <<lsVars, chVars, syVars, cmdVars, sqVars, opVars>>

\* The option WithStdout(writers...) (cmd.go:126-133), applied by New: the
\* stdout fan-out is built anew from the two buffers and the writers.
WithStdout ==
  /\ pc = "new"
  /\ \E writers \in StdoutWriters :
       /\ StdoutWriter' = <<"StdoutBuf", "CombinedBuf">> \o writers
       /\ attached' = [attached EXCEPT !["stdout"] = @ \cup Range(writers)]
  /\ UNCHANGED <<stderrWriter, ext, copier, combinedTail, sent, Env, envCall,
                 procEnv, oneShot>>
  /\ UNCHANGED <<lsVars, chVars, syVars, cmdVars, sqVars, opVars>>

\* The option WithStderr(writers...) (cmd.go:136-143), applied by New.
WithStderr ==
  /\ pc = "new"
  /\ \E writers \in StderrWriters :
       /\ stderrWriter' = <<"StderrBuf", "CombinedBuf">> \o writers
       /\ attached' = [attached EXCEPT !["stderr"] = @ \cup Range(writers)]
  /\ UNCHANGED <<StdoutWriter, ext, copier, combinedTail, sent, Env, envCall,
                 procEnv, oneShot>>
  /\ UNCHANGED <<lsVars, chVars, syVars, cmdVars, sqVars, opVars>>

\* The option WithoutEnv() (cmd.go:173-177), applied by New.
WithoutEnvOption ==
  /\ pc = "new"
  /\ Env' = NilEnv
  /\ envCall' = [op |-> "WithoutEnv", key |-> "", value |-> <<>>,
                 before |-> Env, n |-> envCall.n]
  /\ UNCHANGED <<StdoutWriter, stderrWriter, ext, attached, copier,
                 combinedTail, sent, procEnv, oneShot>>
  /\ UNCHANGED <<lsVars, chVars, syVars, cmdVars, sqVars, opVars>>

\* A call of Cmd.AddEnv(key, value) (cmd.go:181-184) before Run.
AddEnvCall ==
  /\ pc = "new"
  /\ envCall.n < MaxEnvCalls
  /\ \E key \in EnvKeys, value \in EnvValues :
       /\ Env' = AddEnv(Env, key, value)
       /\ envCall' = [op |-> "AddEnv", key |-> key, value |-> value,
                      before |-> Env, n |-> envCall.n + 1]
  /\ UNCHANGED <<StdoutWriter, stderrWriter, ext, attached, copier,
                 combinedTail, sent, procEnv, oneShot>>
  /\ UNCHANGED <<lsVars, chVars, syVars, cmdVars, sqVars, opVars>>

\* The option WithEnv(env) (cmd.go:164-170), applied by New: AddEnv for
\* every key of the map, in the order the range visits them.
WithEnvOption ==
  /\ pc = "new"
  /\ envCall.n < MaxEnvCalls
  /\ \E env \in EnvMaps :
       \E order \in Orders(DOMAIN env) :
         /\ Env' = AddEach(Env, order, env)
         /\ envCall' = [op |-> "WithEnv", key |-> "", value |-> <<>>,
                        before |-> Env, n |-> envCall.n + 1]
  /\ UNCHANGED <<StdoutWriter, stderrWriter, ext, attached, copier,
                 combinedTail, sent, procEnv, oneShot>>
  /\ UNCHANGED <<lsVars, chVars, syVars, cmdVars, sqVars, opVars>>

NextEnv ==
  \/ WithoutEnvOption
  \/ AddEnvCall
  \/ WithEnvOption
  \/ RunStartFails
  \/ RunStarts
  \/ ProcExits

\* One Cmd whose environment is composed before it is run.
SpecEnv == Init /\ [][NextEnv]_vars

NextIO ==
  \/ WithStdStreams
  \/ WithStdout
  \/ WithStderr
  \/ RunStarts
  \/ CopyBegins
  \/ CopyEnds
  \/ ProcExits
  \/ WaitReturns
  \/ RunCompletes

\* One Cmd built with writer options and run to completion.
SpecIO == Init /\ [][NextIO]_vars

\* The steps of one Run and of what runs beside it.
NextRun ==
  \/ WithTimeout
  \/ RunStartFails
  \/ RunStarts
  \/ CallerCancels
  \/ CallerDeadline
  \/ TimerFires
  \/ CopyBegins
  \/ CopyEnds
  \/ ProcExits
  \/ WaitReturns
  \/ RunCompletes
  \/ RunCancelled

\* One Cmd run by a scheduler that lets time pass and lets Run take a case
\* of its select (cmd.go:254) that can be taken: the timer of the derived
\* context and the caller's deadline expire, and the select does not stay
\* blocked while one of its channels is ready. Nothing makes the process
\* exit.
SpecRunFair ==
  /\ Init /\ [][NextRun]_vars
  /\ WF_vars(TimerFires)
  /\ WF_vars(CallerDeadline)
  /\ WF_vars(RunCancelled)
  /\ WF_vars(RunCompletes)

\* gocmd.New with option functions (cmd.go:63-78).
NewWithOptions ==
  /\ pc = "new" /\ ~options.given
  /\ \E list \in OptionLists :
       /\ options' = [given |-> TRUE, list |-> list]
       /\ \E c \in {NewConfig(list)} :
            /\ Timeout' = c.Timeout
            /\ StdoutWriter' = c.StdoutWriter
            /\ stderrWriter' = c.stderrWriter
            /\ Env' = c.Env
            /\ attached' = c.attached
  /\ UNCHANGED <<Executed, exitCode, StdoutBuf, StderrBuf, CombinedBuf, pc,
                 hasDeadline, timeoutCtx, ctxErr, cause, pid, proc, exitStatus,
                 waiter, waitErr, signal, sigTarget, ret, access>>
  /\ UNCHANGED <<ext, copier, combinedTail, sent, envCall, procEnv, oneShot>>
  /\ UNCHANGED <<lsVars, chVars, syVars, sqVars>>

NextNew ==
  \/ NewWithOptions
  \/ RunStarts
  \/ CopyBegins
  \/ CopyEnds
  \/ ProcExits
  \/ WaitReturns
  \/ RunCompletes

\* One Cmd built by New from a list of option functions and run to
\* completion.
SpecNew == Init /\ [][NextNew]_vars

\* ---------------------------------------------------- claims C13 .. C20

\* C13: a result accessor (Stdout, Stderr, Combined, ExitCode) called while
\* Executed is false, on a Cmd never run or on one whose Run failed at
\* process start, panics with a message that names that accessor; it does
\* not return a value.
C13_AccessorsPanic ==
  (access.name # "" /\ ~access.executed)
    => /\ access.panic
       /\ access.property = access.name

\* ExitCode was called after a Run that failed at process start, and
\* panicked naming ExitCode.
C13_Witness ==
  /\ ret = StartError /\ ~Executed
  /\ access.at = "returned" /\ access.name = "ExitCode"
  /\ access.panic /\ access.property = "ExitCode"

\* C14: when the process cannot be started, Run returns the start error at
\* once: Executed stays false, no task waits for a process, no signal is
\* sent and the exit code is not written.
C14_StartFailure ==
  ret = StartError
    => /\ pc = "returned"
       /\ ~Executed
       /\ proc = "none" /\ pid = 0
       /\ waiter = "none"
       /\ signal = "none" /\ sigTarget = 0
       /\ exitCode = 0

\* Run failed at process start with a positive Timeout and no deadline.
C14_Witness ==
  /\ ret = StartError /\ pc = "returned"
  /\ timeoutCtx /\ Timeout = 1
  /\ ~Executed /\ waiter = "none"

\* C15: when Run receives the result of cmd.Wait before it acts on a
\* cancellation, it returns nil whatever the exit status, Executed is true,
\* no signal was sent, and ExitCode() returns without panic the exit status
\* of the process (120 for `exit 120`, 0 for a zero exit).
C15_NaturalCompletion ==
  /\ waiter = "finished"
       => /\ pc = "returned" /\ ret = NilError
          /\ Executed
          /\ proc = "exited" /\ exitCode = exitStatus
          /\ signal = "none"
          /\ (access.name = "ExitCode" /\ access.at = "returned")
               => ~access.panic
  /\ ret = NilError => waiter = "finished"

\* `exit 120` ran to its end and ExitCode() was read after Run returned nil.
C15_Witness ==
  /\ waiter = "finished" /\ ret = NilError /\ Executed
  /\ exitStatus = 120 /\ exitCode = 120
  /\ access.name = "ExitCode" /\ access.at = "returned" /\ ~access.panic

\* C16: when the caller's context has no deadline, Timeout > 0 and the
\* timeout expires before the process completes, Run signals the process
\* group (target -pid) and returns "timeout after <Timeout>", or the error
\* of the signal when sending it failed; while cmd.Wait has not returned,
\* the cancellation branch is the only way Run leaves its select.
C16_ConfiguredTimeout ==
  /\ [](( /\ ~hasDeadline /\ Timeout > 0
          /\ cause = "timer" /\ pc = "returned" /\ waiter # "finished")
        => /\ sigTarget = -1 * pid
           /\ signal = "sent" => ret = TimeoutAfter(Timeout)
           /\ signal = "failed" => ret = KillError(pid)
           /\ signal # "none")
  /\ [][( /\ pc = "select" /\ cause = "timer" /\ waiter = "waiting"
          /\ pc' = "returned")
        => (signal' # "none" /\ sigTarget' = -1 * pid)]_vars

\* The configured timeout of one second fired while the process was running:
\* its group was signalled and Run returned "timeout after 1".
C16_Witness ==
  /\ ~hasDeadline /\ timeoutCtx /\ cause = "timer"
  /\ pc = "returned" /\ proc = "running"
  /\ signal = "sent" /\ sigTarget = -1 * pid /\ pid \in Pids
  /\ ret = TimeoutAfter(1)

\* Run was called with a context that carries a deadline and left its
\* select through the cancellation branch.
DeadlineRunEndedEarly == hasDeadline /\ pc = "returned" /\ signal # "none"

\* C17 as stated: with a deadline on the caller's context the configured
\* Timeout is ignored, and a Run that ends early returns the context's
\* error, never a "timeout after" message.
C17_Original ==
  DeadlineRunEndedEarly
    => /\ ~timeoutCtx /\ cause = "caller"
       /\ ret = CtxError(ctxErr)

\* C17, amended: with a deadline on the caller's context the configured
\* Timeout is ignored whatever its value; a Run that ends early has
\* signalled the process group because the caller's context was done, and
\* returns that context's error ("context deadline exceeded" when the
\* deadline passed), unless sending the signal failed: then it returns the
\* signal's error.  It never returns a "timeout after" message.
C17_DeadlinePrecedence ==
  DeadlineRunEndedEarly
    => /\ ~timeoutCtx /\ cause = "caller"
       /\ sigTarget = -1 * pid
       /\ ret.kind # "timeout after"
       /\ signal = "sent" => ret = CtxError(ctxErr)
       /\ signal = "failed" => ret = KillError(pid)

\* Timeout was one second, the caller's deadline passed and Run returned
\* "context deadline exceeded".
C17_Witness ==
  /\ DeadlineRunEndedEarly /\ Timeout = 1
  /\ ctxErr = DeadlineExceeded /\ signal = "sent"
  /\ ret = CtxError(DeadlineExceeded)

\* C18: when Run ends early because the caller's own context was cancelled
\* or reached its deadline, and the signal was delivered, Run returns that
\* context's error unchanged, also when the context has no deadline and
\* Timeout > 0; "timeout after <duration>" is returned only when the
\* internally derived timeout is what fired.
C18_CancellationOrigin ==
  /\ (pc = "returned" /\ signal = "sent" /\ cause = "caller")
       => ret = CtxError(ctxErr)
  /\ ret.kind = "timeout after" => cause = "timer"

\* C19: Executed is false until Run returns; when Run has returned it is
\* true exactly if the process had been started, on each such path (natural
\* completion, timeout, caller cancellation, failed signal delivery); once
\* true it is never set back to false.
C19_ExecutedOnReturn ==
  /\ [](pc # "returned" => ~Executed)
  /\ [](pc = "returned" => (Executed <=> proc # "none"))
  /\ [](ret.kind \in {"nil", "timeout after", "timeout, kill",
                       Canceled, DeadlineExceeded} => Executed)
  /\ [][Executed => Executed']_vars

\* Run returned the error of a failed signal delivery, with Executed true.
C19_Witness ==
  /\ pc = "returned" /\ signal = "failed" /\ ret = KillError(pid)
  /\ proc # "none" /\ Executed

\* C20: whenever Executed is true the process has terminated and cmd.Wait
\* has returned, and from then on no byte is appended to StdoutBuf,
\* StderrBuf or CombinedBuf and the exit code is not written again.
C20_ExecutedMeansFinal ==
  /\ [](Executed => (proc = "exited" /\ waiter # "waiting"))
  /\ [][Executed => UNCHANGED <<StdoutBuf, StderrBuf, CombinedBuf, exitCode>>]_vars

\* ---------------------------------------------------- claims C21 .. C30

\* Both copying tasks are between two Writes.
CopiersIdle == \A t \in Streams : copier[t].at = "idle"

\* C22: whenever no Write of a fan-out is in progress, CombinedBuf holds the
\* bytes of stdout and of stderr, each stream's bytes in its own order, no
\* byte lost or duplicated: its length is the length of StdoutBuf plus the
\* length of StderrBuf, although two copying tasks write into it.
C22_CombinedOrdering ==
  CopiersIdle
    => /\ Len(CombinedBuf) = Len(StdoutBuf) + Len(StderrBuf)
       /\ OfStream(CombinedBuf, "stdout") = StdoutBuf
       /\ OfStream(CombinedBuf, "stderr") = StderrBuf

\* The process has exited and cmd.Wait has returned: all output is copied.
OutputComplete == waiter \in {"sending", "finished"}

\* What a stream's own sink must hold when no Write is in progress: the
\* bytes of that stream, all of them and no others, in their order.
Receives(sink, stream) == sink = OfStream(sent, stream)

\* C21: with WithStdout(w) in effect every stdout byte reaches StdoutBuf,
\* CombinedBuf and w, and no stderr byte reaches StdoutBuf or w; likewise
\* for WithStderr(v). Once the output is complete, StdoutBuf holds only the
\* stdout bytes, StderrBuf only the stderr bytes, and CombinedBuf holds all
\* bytes of both.
C21_StreamSeparation ==
  /\ (CopiersIdle /\ IndexOf(StdoutWriter, "w") # 0)
       => /\ Receives(StdoutBuf, "stdout")
          /\ Receives(ext["w"], "stdout")
          /\ Receives(OfStream(CombinedBuf, "stdout"), "stdout")
  /\ (CopiersIdle /\ IndexOf(stderrWriter, "v") # 0)
       => /\ Receives(StderrBuf, "stderr")
          /\ Receives(ext["v"], "stderr")
          /\ Receives(OfStream(CombinedBuf, "stderr"), "stderr")
  /\ OutputComplete
       => /\ Receives(StdoutBuf, "stdout")
          /\ Receives(StderrBuf, "stderr")
          /\ Len(CombinedBuf) = Len(sent)

\* C23: after any sequence of the options WithStdout, WithStderr and
\* WithStdStreams, the fan-out of each stream contains the stream's buffer,
\* CombinedBuf and every writer that one of those options attached to the
\* stream, os.Stdout and os.Stderr included.
C23_OptionsAttach ==
  /\ IndexOf(StdoutWriter, "StdoutBuf") # 0
  /\ IndexOf(stderrWriter, "StderrBuf") # 0
  /\ \A t \in Streams :
       /\ IndexOf(Writer(t), "CombinedBuf") # 0
       /\ \A sink \in attached[t] : IndexOf(Writer(t), sink) # 0

\* C24: the one-shot helper returns ("", err) when Cmd.Run returned the
\* error err; otherwise it returns "" and an error whose text is the
\* content of stderr when stderr is not empty, whatever the exit status;
\* otherwise it returns the content of stdout and nil, whatever the exit
\* status.
C24_OneShotHelper ==
  oneShot.called
    => /\ ret # NilError
            => oneShot.out = <<>> /\ oneShot.err = ret
       /\ (ret = NilError /\ StderrBuf # <<>>)
            => /\ oneShot.out = <<>>
               /\ oneShot.err = StderrError
               /\ oneShot.text = StderrBuf
       /\ (ret = NilError /\ StderrBuf = <<>>)
            => oneShot.out = StdoutBuf /\ oneShot.err = NilError

\* The command wrote to both streams and exited with status 0; the helper
\* returned no stdout and the stderr content as its error.
C24_Witness ==
  /\ oneShot.called /\ ret = NilError /\ exitCode = 0 /\ exitStatus = 0
  /\ StdoutBuf # <<>> /\ StderrBuf # <<>>
  /\ oneShot.out = <<>> /\ oneShot.err = StderrError
  /\ oneShot.text = StderrBuf

\* The entries of c.Env, none for a nil slice.
Entries(env) == env.entries

\* C25: c.Env is a copy of the ambient environment after New; WithoutEnv
\* leaves it empty; AddEnv(key, value) leaves the entries it found followed
\* by the one entry "key=<value expanded against the ambient environment>";
\* and the started process receives the entries of c.Env unchanged.
C25_EnvComposition ==
  /\ envCall.op = "" => Env = EnvOf(Environ)
  /\ envCall.op = "WithoutEnv" => Entries(Env) = <<>>
  /\ envCall.op = "AddEnv"
       => Entries(Env)
            = Entries(envCall.before)
                \o <<[key |-> envCall.key, value |-> ExpandEnv(envCall.value)]>>
  /\ proc # "none" => procEnv = Entries(Env)

\* C28: a Cmd built by New without a timeout option has a Timeout of 30
\* minutes, as the comment of New states.
C28_DefaultTimeout == Timeout = ThirtyMinutes

\* C26: with a Timeout that is not positive and a caller's context that
\* has no deadline and is not cancelled, Run does not derive a context
\* with a timeout, its context is never done, no signal is sent, and Run
\* returns from a started process only with nil, once the process has
\* exited and the wait task has handed over its result.
C26_NoTimeout ==
  (Timeout <= 0 /\ ~hasDeadline /\ cause # "caller")
    => /\ ~timeoutCtx
       /\ ctxErr = "nil"
       /\ signal = "none" /\ sigTarget = 0
       /\ (pc = "returned" /\ ret # StartError)
            => /\ ret = NilError
               /\ proc = "exited"
               /\ waiter = "finished"

\* A Cmd with Timeout 0 was run with a context without deadline and
\* returned nil after the process exited, unsignalled.
C26_Witness ==
  /\ Timeout = 0 /\ ~hasDeadline /\ cause = "none"
  /\ pc = "returned" /\ ret = NilError
  /\ proc = "exited" /\ waiter = "finished" /\ signal = "none"

\* C29: the wait task of Run always finishes: it is never left offering
\* the result of cmd.Wait on the channel done to a Run that has returned
\* from its cancellation branch and will not receive.
C29_WaitTaskFinishes == pc = "returned" => waiter # "sending"

\* C30: when sending SIGTERM to the process group fails on the cancellation
\* branch, Run returns the error "timeout, kill <pid>: ..." with the id of
\* the started process, neither the "timeout after" error nor the
\* context's error, and Executed is true.
C30_SignalFailure ==
  signal = "failed"
    => /\ pc = "returned"
       /\ ret = KillError(pid) /\ pid \in Pids
       /\ ret # TimeoutAfter(Timeout) /\ ret # CtxError(ctxErr)
       /\ sigTarget = -1 * pid
       /\ Executed

\* The configured timeout expired, the signal to the group of process 101
\* failed and Run returned the error of the signal.
C30_Witness ==
  /\ timeoutCtx /\ cause = "timer" /\ signal = "failed" /\ pid = 101
  /\ ret = KillError(101) /\ Executed /\ pc = "returned"

\* Some token of the last call holds a byte 0.
NullGiven ==
  \E i \in DOMAIN quote.tokens :
    \E j \in DOMAIN quote.tokens[i] : quote.tokens[i][j] = NUL

\* C27: when a token holds a byte 0, whatever the other tokens are, Quote
\* returns the empty string and ErrNull, and QuoteMust panics with
\* ErrNull; when no token holds a byte 0 the error is nil and QuoteMust
\* does not panic.
C27_NullByte ==
  quote.fn # ""
    => /\ (NullGiven /\ quote.fn = "Quote")
            => quote.out = <<>> /\ quote.err = ErrNull
       /\ (NullGiven /\ quote.fn = "QuoteMust")
            => quote.panic /\ quote.err = ErrNull
       /\ ~NullGiven => quote.err = ErrNil /\ ~quote.panic

\* Quote was called with a token that needs quoting followed by a token
\* with a byte 0, and returned ErrNull and no text.
C27_Witness ==
  /\ quote.fn = "Quote"
  /\ quote.tokens = << <<Spc>>, <<NUL>> >>
  /\ quote.out = <<>> /\ quote.err = ErrNull

\* ---------------------------------------------------- claims C31 .. C39

\* C31: when Run returns from its completion branch and cmd.Wait returned
\* an error that is not an exit-status error (an output sink failed while
\* the output was copied), the caller can tell: Run does not return nil
\* with an exit code of 0.
C31_CopyFailureSeen ==
  (pc = "returned" /\ waiter = "finished" /\ waitErr = CopyError)
    => ~(ret = NilError /\ exitCode = 0)

\* C33: when a Write left a carriage return as the last byte of the carry
\* and the next Write begins with a newline, the line that this newline
\* ends is emitted without the carriage return.
C33_SplitCRLF ==
  (/\ writes >= 2
   /\ prevPending # <<>> /\ prevPending[Len(prevPending)] = CR
   /\ p # <<>> /\ p[1] = NL)
    => /\ lines # <<>>
       /\ lines[1] = SubSeq(prevPending, 1, Len(prevPending) - 1)

\* The carry: the bytes of the line buffer that count.
Carry == Slice(buf, 0, lastChar)

\* C39: after any Write calls the carry holds no newline and is exactly the
\* bytes accepted since the last emitted line, or since creation: the
\* accepted part of one line that has not ended.
C39_CarryUnterminated ==
  /\ lastChar <= Len(buf)
  /\ \A i \in 1..lastChar : buf[i] # NL
  /\ Carry = pending

\* A line was emitted, and the two writes after it each added one byte to
\* the carry.
C39_Witness ==
  /\ writes = 3 /\ run = 1 /\ lines = <<>>
  /\ lastChar = 2 /\ Len(p) = 1
  /\ Carry = pending /\ Carry = Append(prevPending, p[1])

\* Run has returned from its cancellation branch.
ReturnedCancelled == pc = "returned" /\ signal # "none"

\* C36: the exit code is written at most once, by the completion branch
\* as Run returns; after a return from the cancellation branch it is 0
\* and ExitCode() returns without panicking, whatever status the process
\* exits with later; one branch only is taken, and Run returns nil only
\* from the completion branch.
C36_ExitCodeOnce ==
  /\ [](ReturnedCancelled
          => /\ exitCode = 0
             /\ Executed
             /\ waiter # "finished"
             /\ ret # NilError)
  /\ []((ReturnedCancelled /\ access.at = "returned"
            /\ access.name = "ExitCode")
          => ~access.panic)
  /\ [](ret = NilError => (waiter = "finished" /\ signal = "none"))
  /\ [][exitCode' # exitCode
          => (pc = "select" /\ pc' = "returned" /\ waiter' = "finished")]_vars

\* Run returned from the cancellation branch, the process then exited with
\* status 120, and ExitCode() was read: no panic, exit code 0.
C36_Witness ==
  /\ ReturnedCancelled /\ signal = "sent"
  /\ proc = "exited" /\ exitStatus = 120 /\ waiter = "sending"
  /\ access.name = "ExitCode" /\ access.at = "returned" /\ ~access.panic
  /\ exitCode = 0

\* C35: Run returns once it has started the process and either the wait
\* result is there or the governing context is done; with a configured
\* timeout or a caller's deadline it therefore returns in every run, also
\* when the process never exits, because it does not wait for the process
\* after signalling it.
C35_RunTerminates ==
  /\ (pc = "select" /\ (timeoutCtx \/ hasDeadline)) ~> (pc = "returned")
  /\ (pc = "select" /\ waiter = "sending") ~> (pc = "returned")
  /\ (pc = "select" /\ ctxErr # "nil") ~> (pc = "returned")

\* The configured timeout expired, the group was signalled and Run
\* returned while the process was still running.
C35_Witness ==
  /\ pc = "returned" /\ timeoutCtx /\ cause = "timer"
  /\ signal = "sent" /\ proc = "running" /\ waiter = "waiting"
  /\ ret = TimeoutAfter(Timeout)

\* What a text that is not a list of shell words parses to: one word that
\* no token equals.
Malformed == << <<"unterminated">> >>

\* The characters a backslash escapes between double quotes: the dollar,
\* the backquote (written by its code), the double quote, the backslash.
BQu == "\\x60"
EscapedInDouble == {"$", BQu, DQu, BSl}

\* The words a POSIX shell splits a text into, from place i on: between
\* single quotes every character stands for itself; between double quotes
\* a backslash escapes the characters of EscapedInDouble only; outside
\* quotes a backslash escapes the next character and a space ends a word.
\* word is the word begun, if inWord, and words the words ended.
RECURSIVE Words(_, _, _, _, _, _)
Words(text, i, mode, word, inWord, words) ==
  IF i > Len(text)
  THEN IF mode # "plain" THEN Malformed
       ELSE IF inWord THEN Append(words, word) ELSE words
  ELSE IF mode = "single"
  THEN IF text[i] = Quo
       THEN Words(text, i + 1, "plain", word, TRUE, words)
       ELSE Words(text, i + 1, "single", Append(word, text[i]), TRUE, words)
  ELSE IF mode = "double"
  THEN IF text[i] = DQu
       THEN Words(text, i + 1, "plain", word, TRUE, words)
       ELSE IF /\ text[i] = BSl /\ i < Len(text)
               /\ text[i + 1] \in EscapedInDouble
       THEN Words(text, i + 2, "double", Append(word, text[i + 1]), TRUE,
                  words)
       ELSE Words(text, i + 1, "double", Append(word, text[i]), TRUE, words)
  ELSE IF text[i] = Spc
  THEN Words(text, i + 1, "plain", <<>>, FALSE,
             IF inWord THEN Append(words, word) ELSE words)
  ELSE IF text[i] = Quo
  THEN Words(text, i + 1, "single", word, TRUE, words)
  ELSE IF text[i] = DQu
  THEN Words(text, i + 1, "double", word, TRUE, words)
  ELSE IF text[i] = BSl
  THEN IF i = Len(text) THEN Malformed
       ELSE Words(text, i + 2, "plain", Append(word, text[i + 1]), TRUE,
                  words)
  ELSE Words(text, i + 1, "plain", Append(word, text[i]), TRUE, words)

ShellWords(text) == Words(text, 1, "plain", <<>>, FALSE, <<>>)

\* The safe characters [A-Za-z0-9_!%+,-./:@^], among those of the tokens.
Unquoted == {"a", "!", "%", "+", ",", "-", ".", "/", ":", "@", "^"}

\* A token that is empty or made of safe characters only, and the text
\* that stands for it.
Simple(token) == \A j \in DOMAIN token : token[j] \in Unquoted
Piece(token) == IF token = <<>> THEN <<Quo, Quo>> ELSE token

\* Texts put one after the other with one space between two of them.
RECURSIVE Spaced(_)
Spaced(texts) ==
  IF Len(texts) = 0 THEN <<>>
  ELSE IF Len(texts) = 1 THEN texts[1]
  ELSE Spaced(SubSeq(texts, 1, Len(texts) - 1))
         \o <<Spc>> \o texts[Len(texts)]

\* C38: for tokens without a byte 0 the text Quote returns, split into
\* words as a POSIX shell does, gives back the tokens in their order; and
\* when every token is empty or made of safe characters only, the text is
\* the tokens with one space between two of them, '' standing for an
\* empty token and a safe token standing for itself.
C38_RoundTrip ==
  (quote.fn # "" /\ ~NullGiven)
    => /\ ShellWords(quote.out) = quote.tokens
       /\ (\A i \in DOMAIN quote.tokens : Simple(quote.tokens[i]))
            => quote.out
                 = Spaced([i \in DOMAIN quote.tokens |->
                             Piece(quote.tokens[i])])

\* Quote was called with a single quote and a space as its two tokens and
\* returned \' ' ', which a shell splits into these two tokens.
C38_Witness ==
  /\ quote.fn = "Quote"
  /\ quote.tokens = << <<Quo>>, <<Spc>> >>
  /\ quote.out = <<BSl, Quo, Spc, Quo, Spc, Quo>>
  /\ ShellWords(quote.out) = quote.tokens

\* A text written to a new decoder of the given capacity in one call.
InOneCall(text, size) == WriteResult(text, MakeBytes(size), size, 0)

\* C32: when a text without carriage returns is written piece by piece
\* and no call overflows, the lines delivered over all the calls and the
\* carried bytes after the last call are those of the whole text written
\* in one call, which does not overflow either.
C32_ChunkingIndependence ==
  ~overflowed
    => \E one \in {InOneCall(source, bufSize)} :
         /\ ~one.err.overflow
         /\ emitted = one.lines
         /\ Carry = Slice(one.rw.buf, 0, one.rw.lastChar)

\* Three pieces without an overflow: a line begun in the first piece was
\* ended by the second, an empty line followed, and the last piece left
\* bytes carried.
C32_Witness ==
  /\ writes = 3 /\ ~overflowed
  /\ source = <<ByteB, NL, NL, ByteB>>
  /\ p = <<NL, ByteB>> /\ prevPending = <<>>
  /\ emitted = << <<ByteB>>, <<>> >>
  /\ Carry = <<ByteB>>
  /\ emitted = InOneCall(source, bufSize).lines

\* C34: inside a Write the processor gets the next line only after it has
\* returned for the one before; when Write has returned, the processor has
\* been called and has returned once for every newline of p, with the
\* lines and results of the call taken as a whole; and while the processor
\* has not returned nothing else happens: Write does not return and the
\* line buffer holds no tail.
C34_ProcessorSynchronous ==
  /\ [](Len(lines) - call.returns
          = IF call.at = "processor" THEN 1 ELSE 0)
  /\ [][Len(lines') > Len(lines)
          => (call.returns = Len(lines) /\ Len(lines') = Len(lines) + 1)]_vars
  /\ [](call.at = "returned"
          => /\ Len(lines) = NLCount(p) /\ call.returns = NLCount(p)
             /\ \E r \in {WriteResult(p, call.before.buf, bufSize,
                                       call.before.lastChar)} :
                  /\ lines = r.lines /\ n = r.n /\ err = r.err
                  /\ buf = r.rw.buf /\ lastChar = r.rw.lastChar)
  /\ [](call.at = "processor" => lastChar = 0)
  /\ [][call.at = "processor"
          => /\ call'.at = "loop" /\ call'.returns = call.returns + 1
             /\ UNCHANGED <<lsVars>>]_vars

\* The second Write of a run was given two newlines and is inside the
\* processor with its second line, the first being a carried byte.
C34_Witness ==
  /\ writes = 2 /\ call.at = "processor"
  /\ p = <<NL, NL>>
  /\ call.before.lastChar = 1
  /\ lines = << <<ByteB>>, <<>> >>
  /\ call.returns = 1 /\ lastChar = 0

\* The places of the options of a list that assign the field.
Setting(list, field) ==
  {i \in DOMAIN list :
     ApplyOption(Defaults, list[i])[field] # Defaults[field]}

\* The greatest of a set of places, 0 for none.
Last(places) ==
  IF places = {} THEN 0
  ELSE CHOOSE i \in places : \A j \in places : j <= i

\* What the last option that assigns the field leaves in it, the default
\* when no option assigns it.
LastWins(list, field) ==
  IF Last(Setting(list, field)) = 0 THEN Defaults[field]
  ELSE ApplyOption(Defaults, list[Last(Setting(list, field))])[field]

\* How many options of a list call c.AddEnv.
AddEnvCount(list) ==
  Cardinality({i \in DOMAIN list : list[i].op = "c.AddEnv"})

\* C37: New leaves in Timeout and StdoutWriter what the last option that
\* assigns the field put there, the default when there is none, and one
\* more entry in Env for every option that calls AddEnv; a StdoutWriter
\* assigned directly is not a fan-out any more, so that StdoutBuf and
\* CombinedBuf get no byte of stdout; and no step of Run changes Timeout,
\* the writers or Env.
C37_OptionsInOrder ==
  /\ [](options.given
          => /\ Timeout = LastWins(options.list, "Timeout")
             /\ StdoutWriter = LastWins(options.list, "StdoutWriter")
             /\ stderrWriter = NewStderrWriter
             /\ Len(Env.entries)
                  = Len(Environ) + AddEnvCount(options.list))
  /\ []((options.given /\ StdoutWriter = SetWriter.writers)
          => /\ StdoutBuf = <<>>
             /\ OfStream(CombinedBuf, "stdout") = <<>>
             /\ (pc = "returned"
                   => ext["w"] = OfStream(sent, "stdout")))
  /\ [][(pc # "new" \/ pc' # "new")
          => UNCHANGED <<Timeout, StdoutWriter, stderrWriter, Env>>]_vars

\* New was given WithStdout and then the closure that assigns StdoutWriter,
\* and the process has written to stdout: the writer of the closure has
\* the bytes and the buffers have none, as in TestCommand_SetOptions.
C37_Witness ==
  /\ options.given /\ options.list = <<StdoutOption, SetWriter>>
  /\ StdoutWriter = <<"w">>
  /\ pc = "returned" /\ ret = NilError
  /\ OfStream(sent, "stdout") # <<>>
  /\ ext["w"] = OfStream(sent, "stdout")
  /\ StdoutBuf = <<>>

====
